---------------------------- MODULE Spec2Model ----------------------------
(***************************************************************************)
(* Baum-Welch HMM estimator (hmm-core.js) and its driver (app.js).         *)
(*                                                                         *)
(* Numbers.  The program computes in IEEE doubles; the model computes in   *)
(* fixed point: a real x is the integer x * SCALE, addition is exact, and  *)
(* every product and quotient is truncated to a multiple of 1/SCALE, the   *)
(* way every double product and quotient is rounded.  The constant 1e-300  *)
(* (the program's floor) is the smallest positive fixed-point number.      *)
(* 32-bit integers (the generator's state) are pairs of 16-bit halves.     *)
(***************************************************************************)
EXTENDS Integers, Sequences, FiniteSets, TLC

----------------------------------------------------------------------------
(* 32-bit words: <<hi, lo>>, each half in 0..65535 *)

H16 == 65536

Max(a, b) == IF a >= b THEN a ELSE b
Min(a, b) == IF a <= b THEN a ELSE b
Abs(a) == IF a < 0 THEN 0 - a ELSE a

Pow2(k) == 2 ^ k

\* bit i of a
Bit(a, i) == (a \div Pow2(i)) % 2

\* bits i .. i+3 of a ^ b and of a | b, in place
Xor4(a, b, i) ==
  (((Bit(a, i) + Bit(b, i)) % 2) * Pow2(i))
  + (((Bit(a, i + 1) + Bit(b, i + 1)) % 2) * Pow2(i + 1))
  + (((Bit(a, i + 2) + Bit(b, i + 2)) % 2) * Pow2(i + 2))
  + (((Bit(a, i + 3) + Bit(b, i + 3)) % 2) * Pow2(i + 3))

Or4(a, b, i) ==
  (Max(Bit(a, i), Bit(b, i)) * Pow2(i))
  + (Max(Bit(a, i + 1), Bit(b, i + 1)) * Pow2(i + 1))
  + (Max(Bit(a, i + 2), Bit(b, i + 2)) * Pow2(i + 2))
  + (Max(Bit(a, i + 3), Bit(b, i + 3)) * Pow2(i + 3))

\* a ^ b and a | b on 16-bit numbers
Xor16(a, b) == Xor4(a, b, 0) + Xor4(a, b, 4) + Xor4(a, b, 8) + Xor4(a, b, 12)

Or16(a, b) == Or4(a, b, 0) + Or4(a, b, 4) + Or4(a, b, 8) + Or4(a, b, 12)

\* ToInt32 of an integer seed (seed | 0): the two's-complement 32-bit word
ToInt32(n) == << (n \div H16) % H16, n % H16 >>

\* x ^ y
XorW(x, y) == << Xor16(x[1], y[1]), Xor16(x[2], y[2]) >>

\* x | y
OrW(x, y) == << Or16(x[1], y[1]), Or16(x[2], y[2]) >>

\* x >>> k, for 0 < k < 16
ShrW(x, k) ==
  << x[1] \div Pow2(k),
     (x[2] \div Pow2(k)) + ((x[1] % Pow2(k)) * Pow2(16 - k)) >>

\* x + y | 0
AddW(x, y) ==
  LET lo == x[2] + y[2]
  IN  << (x[1] + y[1] + (lo \div H16)) % H16, lo % H16 >>

\* the 32-bit product of two 16-bit halves, as <<hi, lo>>
Mul16(a, b) ==
  LET p1 == (a \div 256) * b
      p0 == (a % 256) * b
      lo == ((p1 % 256) * 256) + (p0 % H16)
  IN  << ((p1 \div 256) + (p0 \div H16) + (lo \div H16)) % H16, lo % H16 >>

\* Math.imul(x, y): the low 32 bits of the product
ImulW(x, y) ==
  LET ll == Mul16(x[2], y[2])
      hl == Mul16(x[1], y[2])
      lh == Mul16(x[2], y[1])
  IN  << (ll[1] + hl[2] + lh[2]) % H16, ll[2] >>

----------------------------------------------------------------------------
(* mulberry32: one call of the returned closure on the closure's seed.     *)
(* MulberryNext is the value the closure leaves in seed; MulberryOut is    *)
(* the unsigned 32-bit integer the call divides by 4294967296.             *)

GOLDEN == << 27947, 31221 >>   \* 0x6D2B79F5

MulberryNext(seed) == AddW(seed, GOLDEN)

MulberryOut(seed) ==
  LET s  == MulberryNext(seed)
      t1 == ImulW(XorW(s, ShrW(s, 15)), OrW(<<0, 1>>, s))
      t2 == XorW(AddW(t1, ImulW(XorW(t1, ShrW(t1, 7)), OrW(<<0, 61>>, t1))), t1)
  IN  XorW(t2, ShrW(t2, 14))

----------------------------------------------------------------------------
(* Fixed-point arithmetic *)

SCALE == 10000

\* 1e-300, the floor the program substitutes for a zero: the smallest
\* positive number of the representation
FLOOR300 == 1

\* a * b, truncated (computed in two parts so that no intermediate product
\* exceeds the result's range)
FMul(a, b) ==
  LET x == Max(a, b)
      y == Min(a, b)
  IN  ((x \div SCALE) * y) + (((x % SCALE) * y) \div SCALE)

\* a / b, truncated, for b > 0
FDiv(a, b) == ((a \div b) * SCALE) + (((a % b) * SCALE) \div b)

\* the value rand() returns for the 32-bit integer w: w / 4294967296
ToUnit(w) == ((w[1] * SCALE) + ((w[2] * SCALE) \div H16)) \div H16

\* sum of f[0] .. f[n-1] (left to right, as the program's loops add)
RECURSIVE SumTo(_, _)
SumTo(f, n) == IF n <= 0 THEN 0 ELSE SumTo(f, n - 1) + f[n - 1]

(* Math.log on a positive fixed-point number: x = m * 2^k with m in [1, 2), *)
(* ln x = k ln 2 + 2 atanh((m - 1) / (m + 1)), the series cut after z^9.    *)
LN2 == (6931 * SCALE) \div 10000

RECURSIVE LnNorm(_, _)
LnNorm(x, k) ==
  IF x >= 2 * SCALE THEN LnNorm(x \div 2, k + 1)
  ELSE IF x < SCALE THEN LnNorm(2 * x, k - 1)
  ELSE << x, k >>

Ln(x) ==
  LET mk == LnNorm(x, 0)
      z  == FDiv(mk[1] - SCALE, mk[1] + SCALE)
      z2 == FMul(z, z)
      z3 == FMul(z, z2)
      z5 == FMul(z3, z2)
      z7 == FMul(z5, z2)
      z9 == FMul(z7, z2)
  IN  (mk[2] * LN2)
      + (2 * (z + (z3 \div 3) + (z5 \div 5) + (z7 \div 7) + (z9 \div 9)))

\* Math.log(1e-300)
LN_FLOOR300 == 0 - ((69078 * SCALE) \div 100)

\* Math.log(x > 0 ? x : 1e-300)
LogOrFloor(x) == IF x > 0 THEN Ln(x) ELSE LN_FLOOR300

\* Math.exp on a fixed-point number: x = r + k ln 2 with 0 <= r < ln 2,
\* e^r by its series cut after r^5; e^(-y) is 1 / e^y
ExpPos(y) ==
  LET k  == y \div LN2
      r  == y - (k * LN2)
      r2 == FMul(r, r)
      r3 == FMul(r2, r)
      r4 == FMul(r3, r)
      r5 == FMul(r4, r)
  IN  << SCALE + r + (r2 \div 2) + (r3 \div 6) + (r4 \div 24) + (r5 \div 120), k >>

Exp(x) ==
  IF x >= 0
  THEN ExpPos(x)[1] * Pow2(Min(ExpPos(x)[2], 14))
  ELSE FDiv(SCALE, ExpPos(0 - x)[1]) \div Pow2(Min(ExpPos(0 - x)[2], 14))

----------------------------------------------------------------------------
(* logSumExp.  Its numbers are doubles with their three special values.    *)

NAN == [k |-> "NaN"]
NEG_INFINITY == [k |-> "-Infinity"]
POS_INFINITY == [k |-> "Infinity"]
Fin(v) == [k |-> "number", v |-> v]

\* isFinite(x)
IsFinite(x) == x.k = "number"

\* x > y
Gt(x, y) ==
  CASE x.k = "NaN" \/ y.k = "NaN" -> FALSE
    [] x.k = "Infinity" -> y.k # "Infinity"
    [] x.k = "-Infinity" -> FALSE
    [] OTHER -> y.k = "-Infinity" \/ (y.k = "number" /\ x.v > y.v)

\* -x
NegX(x) ==
  CASE x.k = "number" -> Fin(0 - x.v)
    [] x.k = "Infinity" -> NEG_INFINITY
    [] x.k = "-Infinity" -> POS_INFINITY
    [] OTHER -> NAN

\* x + y
AddX(x, y) ==
  CASE x.k = "NaN" \/ y.k = "NaN" -> NAN
    [] x.k = "number" /\ y.k = "number" -> Fin(x.v + y.v)
    [] x.k = "number" -> y
    [] y.k = "number" -> x
    [] OTHER -> IF x.k = y.k THEN x ELSE NAN

\* Math.exp(x)
ExpX(x) ==
  CASE x.k = "number" -> Fin(Exp(x.v))
    [] x.k = "-Infinity" -> Fin(0)
    [] OTHER -> x

\* Math.log(x)
LogX(x) ==
  CASE x.k = "number" -> IF x.v > 0 THEN Fin(Ln(x.v))
                         ELSE IF x.v = 0 THEN NEG_INFINITY ELSE NAN
    [] x.k = "Infinity" -> x
    [] OTHER -> NAN

\* the first loop: max after the first n elements
RECURSIVE LseMax(_, _)
LseMax(arr, n) ==
  IF n = 0 THEN NEG_INFINITY
  ELSE IF Gt(arr[n], LseMax(arr, n - 1)) THEN arr[n] ELSE LseMax(arr, n - 1)

\* the second loop: s after the first n elements
RECURSIVE LseSum(_, _, _)
LseSum(arr, n, max) ==
  IF n = 0 THEN Fin(0)
  ELSE AddX(LseSum(arr, n - 1, max), ExpX(AddX(arr[n], NegX(max))))

\* logSumExp without its test of max
LogSumExpUnguarded(arr) ==
  AddX(LseMax(arr, Len(arr)), LogX(LseSum(arr, Len(arr), LseMax(arr, Len(arr)))))

\* logSumExp(arr)
LogSumExp(arr) ==
  IF ~IsFinite(LseMax(arr, Len(arr))) THEN NEG_INFINITY
  ELSE AddX(LseMax(arr, Len(arr)),
            LogX(LseSum(arr, Len(arr), LseMax(arr, Len(arr)))))

----------------------------------------------------------------------------
(* class HMM.  An instance is a record; the methods read it as `this'.     *)
(* Arrays are functions on 0..n-1; logLikeHistory is a sequence.           *)

Idx(n) == 0 .. (n - 1)

\* an array, its entries computed once (the value is f itself)
Arr(f) == IF f = f THEN f ELSE f

\* the closure variable after k calls, each of which adds 0x6D2B79F5 to it
\* (k < 65536)
Advance(seed, k) ==
  IF k <= 0 THEN seed ELSE AddW(seed, ImulW(<< 0, k >>, GOLDEN))

\* the first k outputs of a generator whose closure variable holds seed
Draws(seed, k) == [i \in 1 .. k |-> MulberryOut(Advance(seed, i - 1))]

\* _randRow(k, rand), rand's closure variable holding seed
RandRow(k, seed) ==
  LET d == Draws(seed, k)
      v == Arr([i \in Idx(k) |-> ToUnit(d[i + 1]) + (SCALE \div 5)])
      s == SumTo(v, k)
  IN  [i \in Idx(k) |-> FDiv(v[i], s)]

DEFAULT_MAXITER == 100
DEFAULT_SEED == 42
\* 1e-6, rounded up to the representation
DEFAULT_EPSILON == 1

\* x || d
OrDefault(x, d) == IF x = 0 THEN d ELSE x

Null == [null |-> TRUE]
Some(v) == [null |-> FALSE, v |-> v]

\* a constructor that draws the rows of B before those of A
NewHMMEmissionsFirst(obs, N, M, opts, rs) ==
  LET n == Max(N, 0)
      k == Max(M, 0)
  IN  [ O |-> obs, T |-> Len(obs), N |-> N, M |-> M,
        maxIter |-> OrDefault(opts.maxIter, DEFAULT_MAXITER),
        epsilon |-> OrDefault(opts.epsilon, DEFAULT_EPSILON),
        pi |-> RandRow(N, rs),
        A  |-> [i \in Idx(N) |-> RandRow(N, Advance(rs, n + (n * k) + (i * n)))],
        B  |-> [i \in Idx(N) |-> RandRow(M, Advance(rs, n + (i * k)))],
        logLikeHistory |-> << >>,
        iterations |-> 0,
        converged |-> FALSE,
        finalAlpha |-> Null,
        finalGamma |-> Null ]

\* new HMM(obs, N, M, opts); rs is the closure variable of the generator
\* rand = mulberry32(opts.seed || 42) when the constructor starts to draw
NewHMM(obs, N, M, opts, rs) ==
  LET n == Max(N, 0)
      k == Max(M, 0)
  IN  [ O |-> obs, T |-> Len(obs), N |-> N, M |-> M,
        maxIter |-> OrDefault(opts.maxIter, DEFAULT_MAXITER),
        epsilon |-> OrDefault(opts.epsilon, DEFAULT_EPSILON),
        pi |-> RandRow(N, rs),
        A  |-> [i \in Idx(N) |-> RandRow(N, Advance(rs, n + (i * n)))],
        B  |-> [i \in Idx(N) |-> RandRow(M, Advance(rs, n + (n * n) + (i * k)))],
        logLikeHistory |-> << >>,
        iterations |-> 0,
        converged |-> FALSE,
        finalAlpha |-> Null,
        finalGamma |-> Null ]

\* the number of calls the constructor makes of rand
CtorDraws(N, M) == Max(N, 0) + (Max(N, 0) * Max(N, 0)) + (Max(N, 0) * Max(M, 0))

\* O[t], the observation sequence being 1-indexed in the model
Obs(m, t) == m.O[t + 1]

\* B[j][o] || 1e-300
Emit(m, j, o) ==
  IF o \in DOMAIN m.B[j] /\ m.B[j][o] # 0 THEN m.B[j][o] ELSE FLOOR300

\* one time step of _forward before scaling: pi[i] * (B[i][O[0]] || 1e-300)
\* at t = 0, acc * (B[j][O[t]] || 1e-300) after it, prev being alpha[t - 1]
FwdRaw(m, t, prev) ==
  IF t = 0
  THEN [i \in Idx(m.N) |-> FMul(m.pi[i], Emit(m, i, Obs(m, 0)))]
  ELSE [j \in Idx(m.N) |->
          FMul(SumTo([i \in Idx(m.N) |-> FMul(prev[i], m.A[i][j])], m.N),
               Emit(m, j, Obs(m, t)))]

\* a time step of _forward that leaves the row as computed
FwdRowUnscaled(m, t, prev) ==
  [alpha |-> Arr(FwdRaw(m, t, prev)), c |-> SCALE]

\* one time step of _forward: the row before scaling, its scale factor, the
\* scaled row
FwdRow(m, t, prev) ==
  LET raw == FwdRaw(m, t, prev)
      sum == SumTo(Arr(raw), m.N)
      ct  == IF sum > 0 THEN FDiv(SCALE, sum) ELSE SCALE
  IN  [alpha |-> Arr([i \in Idx(m.N) |-> FMul(Arr(raw)[i], ct)]), c |-> ct]

RECURSIVE FwdRows(_, _, _)
FwdRows(m, t, acc) ==
  IF t >= m.T THEN acc
  ELSE FwdRows(m, t + 1,
         Append(acc, FwdRow(m, t, IF t = 0 THEN << >> ELSE acc[t].alpha)))

\* _forward(): { alpha, c, logLik, logAlpha }
Forward(m) ==
  LET rows == FwdRows(m, 0, << >>)
      c    == Arr([t \in Idx(m.T) |-> rows[t + 1].c])
      al   == Arr([t \in Idx(m.T) |-> rows[t + 1].alpha])
  IN  [ alpha |-> al,
        c |-> c,
        logLik |-> 0 - SumTo([t \in Idx(m.T) |-> LogOrFloor(c[t])], m.T),
        logAlpha |-> [t \in Idx(m.T) |-> [i \in Idx(m.N) |->
                        LogOrFloor(al[t][i]) - LogOrFloor(c[t])]] ]

\* one time step of _backward, next being beta[t + 1]
BwdRow(m, c, t, next) ==
  Arr([i \in Idx(m.N) |->
     FMul(SumTo([j \in Idx(m.N) |->
                   FMul(FMul(m.A[i][j], Emit(m, j, Obs(m, t + 1))), next[j])], m.N),
          c[t])])

\* rows t .. T-1 of beta, as a sequence whose head is row t
RECURSIVE BwdRows(_, _, _, _)
BwdRows(m, c, t, acc) ==
  IF t < 0 THEN acc
  ELSE BwdRows(m, c, t - 1, << BwdRow(m, c, t, Head(acc)) >> \o acc)

\* _backward(c)
Backward(m, c) ==
  LET last == [i \in Idx(m.N) |-> c[m.T - 1]]
      rows == BwdRows(m, c, m.T - 2, << last >>)
  IN  [t \in Idx(m.T) |-> rows[t + 1]]

\* the products of an E-step that takes beta[t] for beta[t + 1] in xi
EStepRawSameTime(m, alpha, beta) ==
  [ gamma |-> Arr([t \in Idx(m.T) |->
                [i \in Idx(m.N) |-> FMul(alpha[t][i], beta[t][i])]]),
    xi |-> Arr([t \in Idx(m.T - 1) |-> [i \in Idx(m.N) |-> [j \in Idx(m.N) |->
                FMul(FMul(FMul(alpha[t][i], m.A[i][j]),
                          Emit(m, j, Obs(m, t + 1))),
                     beta[t][j])]]]) ]

\* the products _estep computes before it divides: g[i] = alpha[t][i] *
\* beta[t][i] and mat[i][j] = alpha[t][i] * A[i][j] * (B[j][O[t+1]] || 1e-300)
\* * beta[t+1][j]
EStepRaw(m, alpha, beta) ==
  [ gamma |-> Arr([t \in Idx(m.T) |->
                [i \in Idx(m.N) |-> FMul(alpha[t][i], beta[t][i])]]),
    xi |-> Arr([t \in Idx(m.T - 1) |-> [i \in Idx(m.N) |-> [j \in Idx(m.N) |->
                FMul(FMul(FMul(alpha[t][i], m.A[i][j]),
                          Emit(m, j, Obs(m, t + 1))),
                     beta[t + 1][j])]]]) ]

\* the sum of the N x N matrix mat, row after row
SumMat(mat, n) == SumTo([i \in Idx(n) |-> SumTo(mat[i], n)], n)

\* an E-step that returns the products as they are
EStepUnnormalised(m, alpha, beta) == EStepRaw(m, alpha, beta)

\* _estep(alpha, beta): { gamma, xi }
EStep(m, alpha, beta) ==
  LET g  == EStepRaw(m, alpha, beta).gamma
      gs == Arr([t \in Idx(m.T) |-> SumTo(g[t], m.N)])
      x  == EStepRaw(m, alpha, beta).xi
      xs == Arr([t \in Idx(m.T - 1) |-> SumMat(x[t], m.N)])
  IN  [ gamma |-> [t \in Idx(m.T) |->
                     IF gs[t] > 0
                     THEN [i \in Idx(m.N) |-> FDiv(g[t][i], gs[t])]
                     ELSE g[t]],
        xi |-> [t \in Idx(m.T - 1) |->
                  IF xs[t] > 0
                  THEN [i \in Idx(m.N) |-> [j \in Idx(m.N) |-> FDiv(x[t][i][j], xs[t])]]
                  ELSE x[t]] ]

\* _mstep() without its final renormalisation of the rows
NormaliseDrift(row, n) == row

\* the M-step's normalise(row), row having n entries
Normalise(row, n) ==
  LET s == OrDefault(SumTo(row, n), SCALE)
  IN  [i \in Idx(n) |-> FDiv(row[i], s)]

\* the M-step with the indices of xi exchanged in the numerator of A
MStepTransposed(m, gamma, xi) ==
  LET denA == Arr([i \in Idx(m.N) |->
                OrDefault(SumTo([t \in Idx(m.T - 1) |-> gamma[t][i]], m.T - 1), FLOOR300)])
      denB == Arr([i \in Idx(m.N) |->
                OrDefault(SumTo([t \in Idx(m.T) |-> gamma[t][i]], m.T), FLOOR300)])
      newA == Arr([i \in Idx(m.N) |-> [j \in Idx(m.N) |->
                 FDiv(SumTo([t \in Idx(m.T - 1) |-> xi[t][j][i]], m.T - 1), denA[i])]])
      newB == Arr([i \in Idx(m.N) |-> [k \in Idx(m.M) |->
                 FDiv(SumTo([t \in Idx(m.T) |->
                              IF Obs(m, t) = k THEN gamma[t][i] ELSE 0], m.T), denB[i])]])
  IN  [ pi |-> Normalise(gamma[0], m.N),
        A  |-> [i \in Idx(m.N) |-> Normalise(newA[i], m.N)],
        B  |-> [i \in Idx(m.N) |-> Normalise(newB[i], m.M)] ]

\* the M-step with the denominator of A summed over all t, as that of B is
MStepFullOccupancy(m, gamma, xi) ==
  LET denB == Arr([i \in Idx(m.N) |->
                OrDefault(SumTo([t \in Idx(m.T) |-> gamma[t][i]], m.T), FLOOR300)])
      newA == Arr([i \in Idx(m.N) |-> [j \in Idx(m.N) |->
                 FDiv(SumTo([t \in Idx(m.T - 1) |-> xi[t][i][j]], m.T - 1), denB[i])]])
      newB == Arr([i \in Idx(m.N) |-> [k \in Idx(m.M) |->
                 FDiv(SumTo([t \in Idx(m.T) |->
                              IF Obs(m, t) = k THEN gamma[t][i] ELSE 0], m.T), denB[i])]])
  IN  [ pi |-> Normalise(gamma[0], m.N),
        A  |-> [i \in Idx(m.N) |-> Normalise(newA[i], m.N)],
        B  |-> [i \in Idx(m.N) |-> Normalise(newB[i], m.M)] ]

\* newA and newB of _mstep: the ratios before normalise, a zero denominator
\* replaced by 1e-300
MStepRaw(m, gamma, xi) ==
  LET denA == Arr([i \in Idx(m.N) |->
                OrDefault(SumTo([t \in Idx(m.T - 1) |-> gamma[t][i]], m.T - 1), FLOOR300)])
      denB == Arr([i \in Idx(m.N) |->
                OrDefault(SumTo([t \in Idx(m.T) |-> gamma[t][i]], m.T), FLOOR300)])
  IN  [ A |-> Arr([i \in Idx(m.N) |-> [j \in Idx(m.N) |->
                 FDiv(SumTo([t \in Idx(m.T - 1) |-> xi[t][i][j]], m.T - 1), denA[i])]]),
        B |-> Arr([i \in Idx(m.N) |-> [k \in Idx(m.M) |->
                 FDiv(SumTo([t \in Idx(m.T) |->
                              IF Obs(m, t) = k THEN gamma[t][i] ELSE 0], m.T), denB[i])]]) ]

\* an M-step that copies gamma[0] into pi and does not renormalise it
MStepPiCopied(m, gamma, xi) ==
  [ pi |-> gamma[0],
    A  |-> [i \in Idx(m.N) |-> Normalise(MStepRaw(m, gamma, xi).A[i], m.N)],
    B  |-> [i \in Idx(m.N) |-> Normalise(MStepRaw(m, gamma, xi).B[i], m.M)] ]

\* _mstep(gamma, xi): { pi, A, B }
MStep(m, gamma, xi) ==
  [ pi |-> Normalise(gamma[0], m.N),
    A  |-> [i \in Idx(m.N) |-> Normalise(MStepRaw(m, gamma, xi).A[i], m.N)],
    B  |-> [i \in Idx(m.N) |-> Normalise(MStepRaw(m, gamma, xi).B[i], m.M)] ]

----------------------------------------------------------------------------
(* Bounds of the model *)

\* observation sequences have at most MaxT symbols
MaxT == 3
\* hidden states
MaxN == 3
\* symbols
MaxM == 3
\* opts.maxIter is at most MaxIterArg
MaxIterArg == 5
\* the larger of the two values of opts.epsilon, in units of 1/SCALE
BigEpsilon == 3000
\* generators and calls of each in the generator specification
MaxGens == 2
MaxDraws == 3
\* calls of runBaumWelch
MaxRuns == 2
\* pending timers of a diagram beyond the one playTimer holds
MaxOrphans == 1
\* the longest array logSumExp is called with
MaxLse == 3

\* the shortest observation sequence runBaumWelch accepts
MIN_OBS == 3

Seeds == {0, 63}

\* the observation sequences of length T over the symbols 0..M-1 the model
\* trains on: the periodic ones, O[t] = (a + b t) mod M
ObsFamily(M, T) ==
  {[t \in 1 .. T |-> (a + (b * (t - 1))) % M] : a \in Idx(M), b \in Idx(M)}

OptSet == [maxIter : {1, 2, MaxIterArg}, epsilon : {0, BigEpsilon}, seed : Seeds]

\* arguments the specification asks for: N >= 1, M >= 1, at least 3
\* observations, every one of them in [0, M)
ValidArgs ==
  UNION {[obs : ObsFamily(M, T), N : 1 .. MaxN, M : {M}, opts : OptSet]
           : M \in 1 .. MaxM, T \in MIN_OBS .. MaxT}

\* arguments that break one of these conditions
InvalidArgs ==
  [obs : {<<0, 0, 0>>}, N : {0 - 1, 0}, M : {1}, opts : OptSet]
  \cup [obs : {<<0, 0, 0>>}, N : {1}, M : {0}, opts : OptSet]
  \cup [obs : {<< >>, <<0>>, <<0, 0>>}, N : {0, 1}, M : {1}, opts : OptSet]
  \cup [obs : {<<0, 1, 0>>, <<0 - 1, 0, 0>>}, N : {1}, M : {1}, opts : OptSet]

ArgSet == ValidArgs \cup InvalidArgs

IsValid(a) ==
  /\ a.N >= 1
  /\ a.M >= 1
  /\ Len(a.obs) >= MIN_OBS
  /\ \A t \in 1 .. Len(a.obs) : a.obs[t] \in Idx(a.M)

----------------------------------------------------------------------------
(* Array objects.  pi, A and B are references to arrays; a matrix is an     *)
(* array of references to its rows.  An array object is its index in the   *)
(* heap, a new array being appended to it.                                  *)

NoRef == [pi |-> 0, A |-> 0, B |-> 0]

\* the heap after a matrix of n rows is allocated, the rows first, and the
\* matrix's reference
AllocMatrix(hp, mat, n) ==
  [ heap |-> (hp \o [k \in 1 .. n |-> mat[k - 1]])
               \o << [i \in Idx(n) |-> Len(hp) + 1 + i] >>,
    id |-> Len(hp) + n + 1 ]

\* new arrays for pi, A and B, A and B of n rows
AllocParams(hp, pi, A, B, n) ==
  LET a == AllocMatrix(Append(hp, pi), A, n)
      b == AllocMatrix(a.heap, B, n)
  IN  [ heap |-> b.heap,
        ref |-> [pi |-> Len(hp) + 1, A |-> a.id, B |-> b.id] ]

\* the content of the matrix id
LoadMatrix(hp, id) == [i \in DOMAIN hp[id] |-> hp[hp[id][i]]]

\* the content of what r refers to
Load(hp, r) ==
  [pi |-> hp[r.pi], A |-> LoadMatrix(hp, r.A), B |-> LoadMatrix(hp, r.B)]

\* hmm.A.map(r => [...r]), hmm.B.map(r => [...r]), [...hmm.pi]: new arrays
\* with the content of the ones r refers to
CopyParams(hp, r) ==
  LET v == Load(hp, r)
      a == AllocMatrix(hp, v.A, Cardinality(DOMAIN v.A))
      b == AllocMatrix(a.heap, v.B, Cardinality(DOMAIN v.B))
  IN  [ heap |-> Append(b.heap, v.pi),
        ref |-> [pi |-> Len(b.heap) + 1, A |-> a.id, B |-> b.id] ]

\* the array objects r refers to: pi, the two matrices and their rows
Objects(hp, r) ==
  {r.pi, r.A, r.B} \cup {hp[r.A][i] : i \in DOMAIN hp[r.A]}
                   \cup {hp[r.B][i] : i \in DOMAIN hp[r.B]}

----------------------------------------------------------------------------
(* class StateTransitionDiagram: the fields the playback reads and writes. *)
(* history is a sequence, so that index i of the program is i + 1 here.    *)
(* playTimer is "null", "pending" (the handle of a timer that has not      *)
(* fired) or "fired" (the handle of one that has); orphans counts the      *)
(* pending timers whose handle playTimer no longer holds.                  *)

NewDiagram ==
  [ history |-> << >>, currentIdx |-> 0 - 1, isPlaying |-> FALSE,
    playTimer |-> "null", orphans |-> 0, isScrubbing |-> FALSE,
    followLatest |-> TRUE, built |-> FALSE, drawn |-> << >>, shown |-> FALSE ]

\* a handler or a timer's callback starts to run on d: drawn and shown are
\* the record of what it does, drawn the indices it gives _render in order,
\* shown whether it has called _updateControls.  The record is kept after
\* the handler where a property looks at it, and dropped elsewhere.
Handler(d) == [d EXCEPT !.drawn = << >>, !.shown = FALSE]

\* what _updateControls() writes to the page's controls: the disabled
\* properties of the buttons and the max of the timeline
Controls(d) ==
  [ btnFirst   |-> d.currentIdx <= 0,
    btnBack    |-> d.currentIdx <= 0,
    btnForward |-> d.currentIdx >= Len(d.history) - 1,
    btnLast    |-> d.currentIdx >= Len(d.history) - 1,
    btnPlay    |-> Len(d.history) = 0,
    max        |-> IF Len(d.history) >= 1 THEN Len(d.history) - 1 ELSE 0 ]

\* the controls before a diagram has written them.  No listener is wired
\* until the first run, whose first feedIteration() writes them all.
NoControls == Controls(NewDiagram)

\* pause() that leaves the timer to fire
DiagPauseKeepTimer(d) == [d EXCEPT !.isPlaying = FALSE, !.shown = TRUE]

\* pause()
DiagPause(d) ==
  [d EXCEPT !.isPlaying = FALSE, !.playTimer = "null", !.shown = TRUE]

\* _playStep() that ends the replay without pause(): the handle of the
\* timer it was called from stays in playTimer
DiagPlayStepKeepTimer(d) ==
  IF ~d.isPlaying THEN d
  ELSE IF d.currentIdx < Len(d.history) - 1
       THEN [d EXCEPT !.currentIdx = @ + 1,
                      !.drawn = Append(@, d.currentIdx + 1),
                      !.shown = TRUE,
                      !.playTimer = "pending",
                      !.orphans = IF d.playTimer = "pending" THEN @ + 1 ELSE @]
       ELSE [d EXCEPT !.isPlaying = FALSE, !.shown = TRUE]

\* _playStep()
DiagPlayStep(d) ==
  IF ~d.isPlaying THEN d
  ELSE IF d.currentIdx < Len(d.history) - 1
       THEN [d EXCEPT !.currentIdx = @ + 1,
                      !.drawn = Append(@, d.currentIdx + 1),
                      !.shown = TRUE,
                      !.playTimer = "pending",
                      !.orphans = IF d.playTimer = "pending" THEN @ + 1 ELSE @]
       ELSE DiagPause(d)

\* feedIteration that keeps one snapshot per iteration number: a snapshot of
\* the number of the last one takes its place
DiagFeedIterationLatest(d, data) ==
  IF d.history # << >> /\ d.history[Len(d.history)].iteration = data.iteration
  THEN [d EXCEPT !.history = [@ EXCEPT ![Len(@)] = data], !.shown = TRUE]
  ELSE [d EXCEPT !.history = Append(@, data),
                 !.built = TRUE,
                 !.currentIdx = IF ~d.isScrubbing /\ d.followLatest
                                THEN Len(d.history) ELSE @,
                 !.drawn = IF ~d.isScrubbing /\ d.followLatest
                           THEN Append(@, Len(d.history)) ELSE @,
                 !.shown = TRUE]

\* feedIteration that shows the new snapshot whatever the user is doing
DiagFeedIterationAlways(d, data) ==
  [d EXCEPT !.history = Append(@, data),
            !.built = TRUE,
            !.currentIdx = Len(d.history),
            !.drawn = Append(@, Len(d.history)),
            !.shown = TRUE]

\* feedIteration(data)
DiagFeedIteration(d, data) ==
  [d EXCEPT !.history = Append(@, data),
            !.built = TRUE,
            !.currentIdx = IF ~d.isScrubbing /\ d.followLatest
                           THEN Len(d.history) ELSE @,
            !.drawn = IF ~d.isScrubbing /\ d.followLatest
                      THEN Append(@, Len(d.history)) ELSE @,
            !.shown = TRUE]

\* onComplete()
DiagOnComplete(d) == DiagPause(d)

\* seekTo(i)
DiagSeekTo(d, i) ==
  IF i < 0 \/ i >= Len(d.history) THEN d
  ELSE [d EXCEPT !.currentIdx = i, !.followLatest = (i >= Len(d.history) - 1),
                 !.drawn = Append(@, i), !.shown = TRUE]

\* play()
DiagPlay(d) ==
  IF Len(d.history) = 0 THEN d
  ELSE DiagPlayStep([d EXCEPT !.followLatest = TRUE, !.isPlaying = TRUE,
                              !.shown = TRUE])

\* stepForward()
DiagStepForward(d) ==
  IF d.currentIdx < Len(d.history) - 1
  THEN [DiagPause(d) EXCEPT !.currentIdx = @ + 1,
                            !.drawn = Append(@, d.currentIdx + 1)]
  ELSE DiagPause(d)

\* stepBack()
DiagStepBack(d) ==
  IF d.currentIdx > 0
  THEN [DiagPause(d) EXCEPT !.currentIdx = @ - 1, !.followLatest = FALSE,
                            !.drawn = Append(@, d.currentIdx - 1)]
  ELSE DiagPause(d)

\* goFirst()
DiagGoFirst(d) == DiagSeekTo(DiagPause(d), 0)

\* goLast()
DiagGoLast(d) ==
  DiagSeekTo([DiagPause(d) EXCEPT !.followLatest = TRUE], Len(d.history) - 1)

\* reset()
DiagReset(d) ==
  [DiagPause(d) EXCEPT !.history = << >>, !.currentIdx = 0 - 1,
                       !.built = FALSE, !.isScrubbing = FALSE,
                       !.followLatest = TRUE]

\* the timer playTimer holds fires: its callback is _playStep()
DiagTimerFires(d) == DiagPlayStep([d EXCEPT !.playTimer = "fired"])

\* a timer playTimer no longer holds fires
DiagOrphanFires(d) == DiagPlayStep([d EXCEPT !.orphans = @ - 1])

\* the play button's listener that shows the first snapshot before it
\* replays from it
DiagClickPlayFromFirst(d) ==
  IF d.isPlaying THEN DiagPause(d)
  ELSE DiagPlay(IF d.currentIdx >= Len(d.history) - 1
                THEN DiagSeekTo(d, 0) ELSE d)

\* the listener wireControls() gives the play button
DiagClickPlay(d) ==
  IF d.isPlaying THEN DiagPause(d)
  ELSE DiagPlay(IF d.currentIdx >= Len(d.history) - 1
                THEN [d EXCEPT !.currentIdx = 0] ELSE d)

\* Math.round(ratio * Math.max(0, history.length - 1)) for the ratio
\* num / 2 of the pointer's place along the timeline: halves round up
ScrubIdx(d, num) ==
  IF Len(d.history) <= 1 THEN 0 ELSE (num * (Len(d.history) - 1) + 1) \div 2

\* the ratios the model's pointer is at: the left end, the middle, the right
ScrubRatios == {0, 1, 2}

\* wireControls(): scrubToIdx(idx) of a number idx
DiagScrubToIdx(d, idx) == DiagSeekTo(d, idx)

\* wireControls(): scrubAtX(clientX), the pointer at ratio num / 2
DiagScrubAtX(d, num) ==
  IF Len(d.history) = 0 THEN d ELSE DiagSeekTo(d, ScrubIdx(d, num))

\* wireControls(): beginScrub()
DiagBeginScrub(d) ==
  DiagPause([d EXCEPT !.isScrubbing = TRUE, !.followLatest = FALSE])

\* wireControls(): endScrub()
DiagEndScrub(d) == [d EXCEPT !.isScrubbing = FALSE]

\* the timeline's pointerdown listener (and touchstart with a touch)
DiagPointerDown(d, num) == DiagScrubAtX(DiagBeginScrub(d), num)

\* the timeline's pointermove listener; pressed: the primary button is down
DiagPointerMove(d, num, pressed) ==
  IF ~d.isScrubbing THEN d
  ELSE IF ~pressed THEN DiagEndScrub(d)
       ELSE DiagScrubAtX(d, num)

\* the timeline's change listener
DiagChange(d, idx) == DiagScrubToIdx(DiagEndScrub(d), idx)

----------------------------------------------------------------------------
(* State *)

VARIABLES
  args,     \* the arguments of new HMM(obs, N, M, opts)
  hmm,      \* the instances: hmm[h] is instance h's fields
  gens,     \* the generators mulberry32 has returned: each one's closure
            \* variable, the seed it was made with and the calls made of it
  outs,     \* outs[g]: the 32-bit integers generator g has returned
  pc,       \* pc[h]: where instance h's train() stands
  mode,     \* mode[h]: "iter" in the loop, "conv" in the final pass of the
            \* convergence branch, "cap" in the final pass after the loop
  iter,     \* train's loop variable
  prevLL,   \* train's prevLL
  loc,      \* train's other locals: the stages' results
  calls,    \* calls[h]: the calls train() made of logCallback, <<iter, done>>
  stages,   \* stages[h]: the calls train() made of _forward, _backward,
            \* _estep and _mstep, in order
  heap,     \* the arrays that hold parameters: heap[id] is the content of
            \* the array object id, ids being given in order of allocation
  ref,      \* ref[h]: the array objects instance h's pi, A and B refer to
  diagrams, \* the StateTransitionDiagram objects made so far
  stdDiagram, \* app.js's stdDiagram: an index of diagrams, 0 for null
  runs,     \* the calls of runBaumWelch so far; 0 when train() is called
            \* with a callback that only logs
  lse,      \* the argument of a call of logSumExp and what it returned
  before,   \* before[h]: the fields instance h had when train() was
            \* called on it again; NoHMM until then
  controls  \* the page's playback controls, which every diagram is wired
            \* to: the buttons' disabled properties and the timeline's max

vars == << args, hmm, gens, outs, pc, mode, iter, prevLL, loc, calls, stages,
           heap, ref, diagrams, stdDiagram, runs, lse, before, controls >>

\* the parameter arrays and the references to them
mem == << heap, ref >>

\* the page: the diagrams and the runs of runBaumWelch; the utility's call;
\* and the record of a repeated call of train()
page == << diagrams, stdDiagram, runs, lse, before, controls >>

Inst == {1, 2}

NoHMM == [absent |-> TRUE]
NoLoc == [f |-> Null, beta |-> Null, e |-> Null, est |-> Null, estRef |-> NoRef,
          logLik |-> 0, delta |-> Null]

\* -Infinity
NegInf == Null

\* logSumExp has not been called
NoCall == [arr |-> << >>, out |-> Null]

\* mulberry32(seed): a new closure
NewGen(seed) == [seed0 |-> seed, seed |-> seed, n |-> 0]

Init ==
  /\ args \in ArgSet
  /\ hmm = [h \in Inst |-> NoHMM]
  /\ gens = << >>
  /\ outs = << >>
  /\ pc = [h \in Inst |-> "none"]
  /\ mode = [h \in Inst |-> "iter"]
  /\ iter = [h \in Inst |-> 0]
  /\ prevLL = [h \in Inst |-> NegInf]
  /\ loc = [h \in Inst |-> NoLoc]
  /\ calls = [h \in Inst |-> << >>]
  /\ stages = [h \in Inst |-> << >>]
  /\ heap = << >>
  /\ ref = [h \in Inst |-> NoRef]
  /\ diagrams = << >>
  /\ stdDiagram = 0
  /\ runs = 0
  /\ lse = NoCall
  /\ before = [h \in Inst |-> NoHMM]
  /\ controls = NoControls

----------------------------------------------------------------------------
(* new HMM(...) *)

\* one generator for all instances, made at the first construction
CtorGenShared(g, seed) == 1

\* the generator the constructor draws from: a new one each time
CtorGen(g, seed) == Len(g) + 1

\* the generators after the constructor, given the one it drew from
GensAfter(g, k, seed, n) ==
  IF k > Len(g)
  THEN Append(g, [seed0 |-> seed, seed |-> Advance(seed, n), n |-> n])
  ELSE [g EXCEPT ![k] = [@ EXCEPT !.seed = Advance(@, n), !.n = @ + n]]

\* instance 1 is made first; instance 2 is the run repeated with the same
\* arguments once instance 1's train() is over
Construct(h) ==
  /\ pc[h] = "none"
  /\ h = 1 \/ pc[1] \in {"returned", "threw"}
  /\ LET s0 == ToInt32(OrDefault(args.opts.seed, DEFAULT_SEED))
         k  == CtorGen(gens, s0)
         rs == IF k > Len(gens) THEN s0 ELSE gens[k].seed
     IN  /\ hmm' = [hmm EXCEPT ![h] = NewHMM(args.obs, args.N, args.M, args.opts, rs)]
         /\ gens' = GensAfter(gens, k, s0, CtorDraws(args.N, args.M))
         /\ \E a \in {AllocParams(heap, hmm'[h].pi, hmm'[h].A, hmm'[h].B,
                                    Max(args.N, 0))} :
              /\ heap' = a.heap
              /\ ref' = [ref EXCEPT ![h] = a.ref]
  /\ pc' = [pc EXCEPT ![h] = "made"]
  /\ UNCHANGED << page, args, outs, mode, iter, prevLL, loc, calls, stages >>

----------------------------------------------------------------------------
(* train(logCallback), one action per statement group *)

\* _forward() throws: new Float64Array(N) with N < 0 (a RangeError), or
\* alpha[0][i] = ... with no row 0 (a TypeError)
ForwardThrows(m) == (m.T >= 1 /\ m.N < 0) \/ (m.T = 0 /\ m.N >= 1)

\* _mstep() throws: Array.from(gamma[0]) with no row 0 (a TypeError)
MStepThrows(m) == m.T = 0

\* train(logCallback) is called: let prevLL = -Infinity; iter = 0; the
\* loop's first test
Train(h) ==
  /\ pc[h] = "made"
  /\ prevLL' = [prevLL EXCEPT ![h] = NegInf]
  /\ iter' = [iter EXCEPT ![h] = 0]
  /\ mode' = [mode EXCEPT ![h] = "iter"]
  /\ pc' = [pc EXCEPT ![h] = IF 0 < hmm[h].maxIter THEN "forward" ELSE "after"]
  /\ UNCHANGED << mem, page, args, hmm, gens, outs, loc, calls, stages >>

\* const { alpha, c, logLik, logAlpha } = this._forward()
DoForward(h) ==
  /\ pc[h] = "forward"
  /\ IF ForwardThrows(hmm[h])
     THEN /\ pc' = [pc EXCEPT ![h] = "threw"]
          /\ UNCHANGED loc
     ELSE /\ pc' = [pc EXCEPT ![h] = "backward"]
          /\ LET f == Forward(hmm[h])
             IN  loc' = [loc EXCEPT ![h] =
                          [@ EXCEPT !.f = Some(f),
                                    !.logLik = IF mode[h] = "iter" THEN f.logLik ELSE @]]
  /\ stages' = [stages EXCEPT ![h] = Append(@, "forward")]
  /\ UNCHANGED << mem, page, args, hmm, gens, outs, mode, iter, prevLL, calls >>

\* a backward pass that takes no scale factors from the forward pass
DoBackwardUnscaled(h) ==
  /\ pc[h] = "backward"
  /\ loc' = [loc EXCEPT ![h].beta =
               Some(Backward(hmm[h], [t \in Idx(hmm[h].T) |-> SCALE]))]
  /\ pc' = [pc EXCEPT ![h] = "estep"]
  /\ stages' = [stages EXCEPT ![h] = Append(@, "backward")]
  /\ UNCHANGED << mem, page, args, hmm, gens, outs, mode, iter, prevLL, calls >>

\* const beta = this._backward(c)
DoBackward(h) ==
  /\ pc[h] = "backward"
  /\ loc' = [loc EXCEPT ![h].beta = Some(Backward(hmm[h], loc[h].f.v.c))]
  /\ pc' = [pc EXCEPT ![h] = "estep"]
  /\ stages' = [stages EXCEPT ![h] = Append(@, "backward")]
  /\ UNCHANGED << mem, page, args, hmm, gens, outs, mode, iter, prevLL, calls >>

\* const { gamma, xi } = this._estep(alpha, beta)
DoEStep(h) ==
  /\ pc[h] = "estep"
  /\ loc' = [loc EXCEPT ![h].e = Some(EStep(hmm[h], loc[h].f.v.alpha, loc[h].beta.v))]
  /\ pc' = [pc EXCEPT ![h] = IF mode[h] = "iter" THEN "mstep" ELSE "store"]
  /\ stages' = [stages EXCEPT ![h] = Append(@, "estep")]
  /\ UNCHANGED << mem, page, args, hmm, gens, outs, mode, iter, prevLL, calls >>

\* the arrays of an M-step that wrote its results into the arrays the
\* instance holds
MStepInPlace(hp, r, est, n) ==
  [ heap |-> [id \in DOMAIN hp |->
                IF id = r.pi THEN est.pi
                ELSE IF \E i \in DOMAIN hp[r.A] : hp[r.A][i] = id
                     THEN est.A[CHOOSE i \in DOMAIN hp[r.A] : hp[r.A][i] = id]
                ELSE IF \E i \in DOMAIN hp[r.B] : hp[r.B][i] = id
                     THEN est.B[CHOOSE i \in DOMAIN hp[r.B] : hp[r.B][i] = id]
                ELSE hp[id]],
    ref |-> r ]

\* the arrays _mstep returns: Array.from and map make new ones, whatever
\* the arrays r the instance holds
MStepArrays(hp, r, est, n) == AllocParams(hp, est.pi, est.A, est.B, n)

\* const { pi, A, B } = this._mstep(gamma, xi)
DoMStep(h) ==
  /\ pc[h] = "mstep"
  /\ IF MStepThrows(hmm[h])
     THEN /\ pc' = [pc EXCEPT ![h] = "threw"]
          /\ UNCHANGED << loc, heap >>
     ELSE /\ pc' = [pc EXCEPT ![h] = "replace"]
          /\ LET est == MStep(hmm[h], loc[h].e.v.gamma, loc[h].e.v.xi)
                 a   == MStepArrays(heap, ref[h], est, Max(hmm[h].N, 0))
             IN  /\ loc' = [loc EXCEPT ![h] =
                              [@ EXCEPT !.est = Some(est), !.estRef = a.ref]]
                 /\ heap' = a.heap
  /\ stages' = [stages EXCEPT ![h] = Append(@, "mstep")]
  /\ UNCHANGED << ref, page, args, hmm, gens, outs, mode, iter, prevLL, calls >>

\* logLik - prevLL
Delta(ll, prev) == IF prev.null THEN Null ELSE Some(ll - prev.v)

\* the replacement with the log-likelihood of the new parameters pushed
ReplaceThenScore(h) ==
  /\ pc[h] = "replace"
  /\ hmm' = [hmm EXCEPT ![h] =
               [@ EXCEPT !.pi = loc[h].est.v.pi,
                         !.A = loc[h].est.v.A,
                         !.B = loc[h].est.v.B,
                         !.logLikeHistory =
                            Append(@, Forward([hmm[h] EXCEPT !.pi = loc[h].est.v.pi,
                                                             !.A = loc[h].est.v.A,
                                                             !.B = loc[h].est.v.B]).logLik),
                         !.iterations = iter[h] + 1]]
  /\ ref' = [ref EXCEPT ![h] = loc[h].estRef]
  /\ loc' = [loc EXCEPT ![h].delta = Delta(loc[h].logLik, prevLL[h])]
  /\ pc' = [pc EXCEPT ![h] = "callback"]
  /\ UNCHANGED << heap, page, args, gens, outs, mode, iter, prevLL, calls, stages >>

\* this.pi = pi; this.A = A; this.B = B; this.logLikeHistory.push(logLik);
\* this.iterations = iter + 1; const delta = logLik - prevLL
Replace(h) ==
  /\ pc[h] = "replace"
  /\ hmm' = [hmm EXCEPT ![h] =
               [@ EXCEPT !.pi = loc[h].est.v.pi,
                         !.A = loc[h].est.v.A,
                         !.B = loc[h].est.v.B,
                         !.logLikeHistory = Append(@, loc[h].logLik),
                         !.iterations = iter[h] + 1]]
  /\ ref' = [ref EXCEPT ![h] = loc[h].estRef]
  /\ loc' = [loc EXCEPT ![h].delta = Delta(loc[h].logLik, prevLL[h])]
  /\ pc' = [pc EXCEPT ![h] = "callback"]
  /\ UNCHANGED << heap, page, args, gens, outs, mode, iter, prevLL, calls, stages >>

\* the snapshot whose arrays are the instance's own
SnapshotShared(hp, r) == [heap |-> hp, ref |-> r]

\* the arrays of the snapshot runBaumWelch's callback hands to the diagram
SnapshotArrays(hp, r) == CopyParams(hp, r)

\* hmm.logLikeHistory[hmm.logLikeHistory.length - 1] ?? 0
LastLogLik(m) ==
  IF m.logLikeHistory = << >> THEN 0 ELSE m.logLikeHistory[Len(m.logLikeHistory)]

\* the body of the callback train() is given, called with (msg, i, done): a
\* callback that only logs, or runBaumWelch's, which feeds the diagram a
\* snapshot whatever done is
Callback(h, i, done) ==
  IF runs = 0
  THEN UNCHANGED << heap, diagrams, controls >>
  ELSE LET c == SnapshotArrays(heap, ref[h])
           v == DiagFeedIteration(Handler(diagrams[stdDiagram]),
                  [ A |-> c.ref.A, B |-> c.ref.B, pi |-> c.ref.pi,
                    iteration |-> i + 1,
                    log_likelihood |-> LastLogLik(hmm[h]) ])
       IN  /\ heap' = c.heap
           /\ diagrams' = [diagrams EXCEPT ![stdDiagram] = Handler(v)]
           /\ controls' = Controls(v)

\* the callback given the iteration's number 1, 2, ... of the message
\* instead of the loop index
LogCallbackOneBased(h) ==
  /\ pc[h] = "callback"
  /\ calls' = [calls EXCEPT ![h] = Append(@, << iter[h] + 1, FALSE >>)]
  /\ Callback(h, iter[h] + 1, FALSE)
  /\ pc' = [pc EXCEPT ![h] = "test"]
  /\ UNCHANGED << ref, stdDiagram, runs, lse, before, args, hmm, gens, outs, mode, iter,
                  prevLL, loc, stages >>

\* if (logCallback) logCallback(`Iter ...`, iter)
LogCallback(h) ==
  /\ pc[h] = "callback"
  /\ calls' = [calls EXCEPT ![h] = Append(@, << iter[h], FALSE >>)]
  /\ Callback(h, iter[h], FALSE)
  /\ pc' = [pc EXCEPT ![h] = "test"]
  /\ UNCHANGED << ref, stdDiagram, runs, lse, before, args, hmm, gens, outs, mode, iter,
                  prevLL, loc, stages >>

\* the test that passes whenever it is made
ConvergesAtFirstTest(m, i, delta) == i > 0

\* the test without the guard of the first iteration, the difference from
\* -Infinity taken as small
ConvergesFromStart(m, i, delta) == delta.null \/ Abs(delta.v) < m.epsilon

\* iter > 0 && Math.abs(delta) < this.epsilon
Converges(m, i, delta) == i > 0 /\ ~delta.null /\ Abs(delta.v) < m.epsilon

\* the convergence branch without the recomputation: finalAlpha and
\* finalGamma are taken from the pass made before the M-step
ConvergenceTestStale(h) ==
  /\ pc[h] = "test"
  /\ IF Converges(hmm[h], iter[h], loc[h].delta)
     THEN /\ hmm' = [hmm EXCEPT ![h].converged = TRUE]
          /\ mode' = [mode EXCEPT ![h] = "conv"]
          /\ pc' = [pc EXCEPT ![h] = "store"]
          /\ UNCHANGED << prevLL, iter >>
     ELSE /\ prevLL' = [prevLL EXCEPT ![h] = Some(loc[h].logLik)]
          /\ iter' = [iter EXCEPT ![h] = @ + 1]
          /\ pc' = [pc EXCEPT ![h] =
                      IF iter[h] + 1 < hmm[h].maxIter THEN "forward" ELSE "after"]
          /\ UNCHANGED << hmm, mode >>
  /\ UNCHANGED << mem, page, args, gens, outs, loc, calls, stages >>

\* the convergence test; on convergence this.converged = true and the final
\* pass starts, otherwise prevLL = logLik, iter++ and the loop's test
ConvergenceTest(h) ==
  /\ pc[h] = "test"
  /\ IF Converges(hmm[h], iter[h], loc[h].delta)
     THEN /\ hmm' = [hmm EXCEPT ![h].converged = TRUE]
          /\ mode' = [mode EXCEPT ![h] = "conv"]
          /\ pc' = [pc EXCEPT ![h] = "forward"]
          /\ UNCHANGED << prevLL, iter >>
     ELSE /\ prevLL' = [prevLL EXCEPT ![h] = Some(loc[h].logLik)]
          /\ iter' = [iter EXCEPT ![h] = @ + 1]
          /\ pc' = [pc EXCEPT ![h] =
                      IF iter[h] + 1 < hmm[h].maxIter THEN "forward" ELSE "after"]
          /\ UNCHANGED << hmm, mode >>
  /\ UNCHANGED << mem, page, args, gens, outs, loc, calls, stages >>

\* this.finalAlpha = f.logAlpha; this.finalGamma = fg.gamma
StoreFinal(h) ==
  /\ pc[h] = "store"
  /\ hmm' = [hmm EXCEPT ![h] =
               [@ EXCEPT !.finalAlpha = Some(loc[h].f.v.logAlpha),
                         !.finalGamma = Some(loc[h].e.v.gamma)]]
  /\ pc' = [pc EXCEPT ![h] = IF mode[h] = "conv" THEN "done" ELSE "returned"]
  /\ UNCHANGED << mem, page, args, gens, outs, mode, iter, prevLL, loc, calls, stages >>

\* if (logCallback) logCallback(`Converged ...`, iter, true); break
DoneCallback(h) ==
  /\ pc[h] = "done"
  /\ calls' = [calls EXCEPT ![h] = Append(@, << iter[h], TRUE >>)]
  /\ Callback(h, iter[h], TRUE)
  /\ pc' = [pc EXCEPT ![h] = "after"]
  /\ UNCHANGED << ref, stdDiagram, runs, lse, before, args, hmm, gens, outs, mode, iter,
                  prevLL, loc, stages >>

\* after the loop, the final pass made whether or not the run converged
AfterLoopAlways(h) ==
  /\ pc[h] = "after"
  /\ IF mode[h] # "cap"
     THEN /\ mode' = [mode EXCEPT ![h] = "cap"]
          /\ pc' = [pc EXCEPT ![h] = "forward"]
     ELSE /\ pc' = [pc EXCEPT ![h] = "returned"]
          /\ UNCHANGED mode
  /\ UNCHANGED << mem, page, args, hmm, gens, outs, iter, prevLL, loc, calls, stages >>

\* after the loop: if (!this.converged) the final pass, else return
AfterLoop(h) ==
  /\ pc[h] = "after"
  /\ IF ~hmm[h].converged
     THEN /\ mode' = [mode EXCEPT ![h] = "cap"]
          /\ pc' = [pc EXCEPT ![h] = "forward"]
     ELSE /\ pc' = [pc EXCEPT ![h] = "returned"]
          /\ UNCHANGED mode
  /\ UNCHANGED << mem, page, args, hmm, gens, outs, iter, prevLL, loc, calls, stages >>

Step(h) ==
  \/ Construct(h)
  \/ Train(h)
  \/ DoForward(h)
  \/ DoBackward(h)
  \/ DoEStep(h)
  \/ DoMStep(h)
  \/ Replace(h)
  \/ LogCallback(h)
  \/ ConvergenceTest(h)
  \/ StoreFinal(h)
  \/ DoneCallback(h)
  \/ AfterLoop(h)

Next == Step(1)

Spec == Init /\ [][Next]_vars

\* the run repeated: a second instance made with the same arguments and
\* trained after the first; the arguments with the longest runs
Rerun == Step(1) \/ Step(2)

InitRerun == Init /\ args.opts.maxIter = MaxIterArg

SpecRerun == InitRerun /\ [][Rerun]_vars

\* a call of train() that starts the instance anew: the history emptied,
\* iterations, converged and the final matrices as the constructor set them
TrainAgainFresh(h) ==
  /\ pc[h] = "returned"
  /\ before[h] = NoHMM
  /\ before' = [before EXCEPT ![h] = hmm[h]]
  /\ hmm' = [hmm EXCEPT ![h] =
               [@ EXCEPT !.logLikeHistory = << >>, !.iterations = 0,
                         !.converged = FALSE,
                         !.finalAlpha = Null, !.finalGamma = Null]]
  /\ prevLL' = [prevLL EXCEPT ![h] = NegInf]
  /\ iter' = [iter EXCEPT ![h] = 0]
  /\ mode' = [mode EXCEPT ![h] = "iter"]
  /\ pc' = [pc EXCEPT ![h] = IF 0 < hmm[h].maxIter THEN "forward" ELSE "after"]
  /\ UNCHANGED << mem, diagrams, stdDiagram, runs, lse, controls, args, gens, outs,
                  loc, calls, stages >>

\* train(logCallback) is called on an instance on which it has returned:
\* let prevLL = -Infinity; iter = 0; the loop's first test.  No field of the
\* instance is written
TrainAgain(h) ==
  /\ pc[h] = "returned"
  /\ before[h] = NoHMM
  /\ before' = [before EXCEPT ![h] = hmm[h]]
  /\ prevLL' = [prevLL EXCEPT ![h] = NegInf]
  /\ iter' = [iter EXCEPT ![h] = 0]
  /\ mode' = [mode EXCEPT ![h] = "iter"]
  /\ pc' = [pc EXCEPT ![h] = IF 0 < hmm[h].maxIter THEN "forward" ELSE "after"]
  /\ UNCHANGED << mem, diagrams, stdDiagram, runs, lse, controls, args, hmm, gens,
                  outs, loc, calls, stages >>

\* train() called twice on one instance
NextAgain == Step(1) \/ TrainAgain(1)

InitAgain == Init

SpecAgain == InitAgain /\ [][NextAgain]_vars

----------------------------------------------------------------------------
(* The page: runBaumWelch() and the diagram's controls.  The page's code   *)
(* runs one handler at a time: from the click on the button to the end of  *)
(* runBaumWelch no other handler and no timer runs.                        *)

\* instance 1 is not in a run
Idle == {"idle", "shown", "threw"}

\* what the form's fields hold; M = 0 is the empty field
AppInputs ==
  [ obs : {<<0, 1, 0>>, <<0, 0>>}, N : {1, 2}, M : {0, 2},
    opts : [maxIter : {2, MaxIterArg}, epsilon : {0, BigEpsilon}, seed : {63}] ]

\* Math.max(...obs)
MaxOf(obs) == CHOOSE x \in {obs[t] : t \in DOMAIN obs} :
                \A t \in DOMAIN obs : obs[t] <= x

\* if (!M || isNaN(M)) M = Math.max(...obs) + 1
SymbolsOf(inp) == IF inp.M = 0 THEN MaxOf(inp.obs) + 1 ELSE inp.M

\* initDiagram(): if (stdDiagram) stdDiagram.reset(); stdDiagram = new
\* StateTransitionDiagram(...)
InitDiagram ==
  /\ diagrams' = Append(IF stdDiagram = 0 THEN diagrams
                        ELSE [diagrams EXCEPT ![stdDiagram] = Handler(DiagReset(@))],
                        NewDiagram)
  /\ controls' = IF stdDiagram = 0 THEN controls
                 ELSE Controls(DiagReset(diagrams[stdDiagram]))
  /\ stdDiagram' = Len(diagrams) + 1

\* runBaumWelch() up to the call of new HMM: the inputs are read, fewer than
\* 3 observations end the handler, the diagram is made anew.  What the last
\* run left (its instance, its generator, its arrays) is out of reach and is
\* dropped here.
RunBaumWelch(inp) ==
  /\ pc[1] \in Idle
  /\ runs < MaxRuns
  /\ runs' = runs + 1
  /\ IF Len(inp.obs) < MIN_OBS
     THEN UNCHANGED << args, hmm, gens, pc, mode, iter, prevLL, loc, calls, stages,
                       heap, ref, diagrams, stdDiagram, controls >>
     ELSE /\ InitDiagram
          /\ args' = [obs |-> inp.obs, N |-> inp.N, M |-> SymbolsOf(inp),
                      opts |-> inp.opts]
          /\ hmm' = [hmm EXCEPT ![1] = NoHMM]
          /\ gens' = << >>
          /\ heap' = << >>
          /\ ref' = [ref EXCEPT ![1] = NoRef]
          /\ pc' = [pc EXCEPT ![1] = "none"]
          /\ mode' = [mode EXCEPT ![1] = "iter"]
          /\ iter' = [iter EXCEPT ![1] = 0]
          /\ prevLL' = [prevLL EXCEPT ![1] = NegInf]
          /\ loc' = [loc EXCEPT ![1] = NoLoc]
          /\ calls' = [calls EXCEPT ![1] = << >>]
          /\ stages' = [stages EXCEPT ![1] = << >>]
  /\ UNCHANGED << outs, lse, before >>

\* runBaumWelch() after train() has returned: stdDiagram.onComplete() and
\* the results
OnComplete ==
  /\ pc[1] = "returned"
  /\ runs > 0
  /\ diagrams' = [diagrams EXCEPT ![stdDiagram] = Handler(DiagOnComplete(@))]
  /\ controls' = Controls(DiagOnComplete(diagrams[stdDiagram]))
  /\ pc' = [pc EXCEPT ![1] = "shown"]
  /\ UNCHANGED << args, hmm, gens, outs, mode, iter, prevLL, loc, calls, stages,
                  heap, ref, stdDiagram, runs, lse, before >>

\* a method or a timer's callback has run on diagram d alone and left it
\* as v, with the record of the run: the controls hold what it wrote, if it
\* wrote
Observed(d, v) ==
  /\ pc[1] \in Idle
  /\ diagrams' = [diagrams EXCEPT ![d] = v]
  /\ controls' = IF v.shown THEN Controls(v) ELSE controls
  /\ UNCHANGED << args, hmm, gens, outs, pc, mode, iter, prevLL, loc, calls, stages,
                  heap, ref, stdDiagram, runs, lse, before >>

\* the same, the record of the run dropped
Update(d, v) ==
  /\ pc[1] \in Idle
  /\ diagrams' = [diagrams EXCEPT ![d] = Handler(v)]
  /\ controls' = IF v.shown THEN Controls(v) ELSE controls
  /\ UNCHANGED << args, hmm, gens, outs, pc, mode, iter, prevLL, loc, calls, stages,
                  heap, ref, stdDiagram, runs, lse, before >>

\* the methods of the public API, called on diagram d

SeekTo(d, i) ==
  d \in 1 .. Len(diagrams) /\ Update(d, DiagSeekTo(Handler(diagrams[d]), i))

Play(d) ==
  /\ d \in 1 .. Len(diagrams)
  /\ diagrams[d].playTimer = "pending" => diagrams[d].orphans < MaxOrphans
  /\ Update(d, DiagPlay(Handler(diagrams[d])))

Pause(d) == d \in 1 .. Len(diagrams) /\ Update(d, DiagPause(Handler(diagrams[d])))

StepForward(d) ==
  d \in 1 .. Len(diagrams) /\ Update(d, DiagStepForward(Handler(diagrams[d])))

StepBack(d) ==
  d \in 1 .. Len(diagrams) /\ Update(d, DiagStepBack(Handler(diagrams[d])))

GoFirst(d) == d \in 1 .. Len(diagrams) /\ Update(d, DiagGoFirst(Handler(diagrams[d])))

GoLast(d) == d \in 1 .. Len(diagrams) /\ Update(d, DiagGoLast(Handler(diagrams[d])))

\* the timers

TimerFires(d) ==
  /\ d \in 1 .. Len(diagrams)
  /\ diagrams[d].playTimer = "pending"
  /\ Update(d, DiagTimerFires(Handler(diagrams[d])))

OrphanFires(d) ==
  /\ d \in 1 .. Len(diagrams)
  /\ diagrams[d].orphans > 0
  /\ Update(d, DiagOrphanFires(Handler(diagrams[d])))

\* the timer playTimer holds fires, the record of its callback's run kept
Tick(d) ==
  /\ d \in 1 .. Len(diagrams)
  /\ diagrams[d].playTimer = "pending"
  /\ Observed(d, DiagTimerFires(Handler(diagrams[d])))

\* An event of the page's controls.  wireControls() adds the listeners of
\* each diagram to the same elements, and initDiagram() resets the diagram
\* it replaces without taking its listeners away: an event runs the
\* listeners of every diagram made so far, in the order they were made.

WiredEvents ==
  {"first", "back", "forward", "last", "play", "pointerdown", "pointermove",
   "mousedown", "input", "change", "pointerup"}

\* the listener of event e of one diagram; num is the pointer's place or
\* the timeline's value, pressed whether the primary button is down
Listener(e, d, num, pressed) ==
  CASE e = "first"       -> DiagGoFirst(d)
    [] e = "back"        -> DiagStepBack(d)
    [] e = "forward"     -> DiagStepForward(d)
    [] e = "last"        -> DiagGoLast(d)
    [] e = "play"        -> DiagClickPlay(d)
    [] e = "pointerdown" -> DiagPointerDown(d, num)
    [] e = "pointermove" -> DiagPointerMove(d, num, pressed)
    [] e = "mousedown"   -> DiagBeginScrub(d)
    [] e = "input"       -> DiagScrubToIdx(d, num)
    [] e = "change"      -> DiagChange(d, num)
    [] e = "pointerup"   -> DiagEndScrub(d)

\* the page lets the event happen: a disabled button is not clicked, the
\* timeline's value is between 0 and its max
Allowed(e, num) ==
  CASE e = "first"   -> ~controls.btnFirst
    [] e = "back"    -> ~controls.btnBack
    [] e = "forward" -> ~controls.btnForward
    [] e = "last"    -> ~controls.btnLast
    [] e = "play"    -> ~controls.btnPlay
    [] e \in {"input", "change"} -> num \in 0 .. controls.max
    [] OTHER -> num \in ScrubRatios

\* the controls after the listeners have left the diagrams as ds: what the
\* last of them that called _updateControls() wrote
Written(ds) ==
  LET W == {d \in 1 .. Len(ds) : ds[d].shown}
  IN  IF W = {} THEN controls
      ELSE Controls(ds[CHOOSE d \in W : \A x \in W : x <= d])

\* event e happens
Wired(e, num, pressed) ==
  /\ pc[1] \in Idle
  /\ diagrams # << >>
  /\ Allowed(e, num)
  /\ LET ds == [d \in 1 .. Len(diagrams) |->
                  Listener(e, Handler(diagrams[d]), num, pressed)]
     IN  /\ diagrams' = ds
         /\ controls' = Written(ds)
  /\ UNCHANGED << args, hmm, gens, outs, pc, mode, iter, prevLL, loc, calls, stages,
                  heap, ref, stdDiagram, runs, lse, before >>

\* the values an event brings: a place of the pointer or a value of the
\* timeline
EventNums == 0 .. (MaxIterArg + 1)

\* a click on the play button
ClickPlay == Wired("play", 0, FALSE)

\* any event of the controls
WiredEvent ==
  \/ Wired("first", 0, FALSE)
  \/ Wired("back", 0, FALSE)
  \/ Wired("forward", 0, FALSE)
  \/ Wired("last", 0, FALSE)
  \/ ClickPlay
  \/ \E num \in EventNums : Wired("pointerdown", num, TRUE)
  \/ \E num \in EventNums, pressed \in BOOLEAN : Wired("pointermove", num, pressed)
  \/ Wired("mousedown", 0, TRUE)
  \/ \E num \in EventNums : Wired("input", num, FALSE)
  \/ \E num \in EventNums : Wired("change", num, FALSE)
  \/ Wired("pointerup", 0, FALSE)

InitApp ==
  /\ args = [obs |-> << >>, N |-> 0, M |-> 0,
             opts |-> [maxIter |-> 0, epsilon |-> 0, seed |-> 0]]
  /\ hmm = [h \in Inst |-> NoHMM]
  /\ gens = << >>
  /\ outs = << >>
  /\ pc = [h \in Inst |-> "idle"]
  /\ mode = [h \in Inst |-> "iter"]
  /\ iter = [h \in Inst |-> 0]
  /\ prevLL = [h \in Inst |-> NegInf]
  /\ loc = [h \in Inst |-> NoLoc]
  /\ calls = [h \in Inst |-> << >>]
  /\ stages = [h \in Inst |-> << >>]
  /\ heap = << >>
  /\ ref = [h \in Inst |-> NoRef]
  /\ diagrams = << >>
  /\ stdDiagram = 0
  /\ runs = 0
  /\ lse = NoCall
  /\ before = [h \in Inst |-> NoHMM]
  /\ controls = NoControls

NextApp ==
  \/ \E inp \in AppInputs : RunBaumWelch(inp)
  \/ Step(1)
  \/ OnComplete
  \/ \E d \in 1 .. MaxRuns :
       \/ \E i \in (0 - 1) .. (MaxIterArg + 1) : SeekTo(d, i)
       \/ Play(d)
       \/ Pause(d)
       \/ StepForward(d)
       \/ StepBack(d)
       \/ GoFirst(d)
       \/ GoLast(d)
       \/ TimerFires(d)
       \/ OrphanFires(d)

SpecApp == InitApp /\ [][NextApp]_vars

\* the page as its user drives it: the runs, the events of the controls
\* and the timers
InitPage == InitApp

NextPage ==
  \/ \E inp \in AppInputs : RunBaumWelch(inp)
  \/ Step(1)
  \/ OnComplete
  \/ WiredEvent
  \/ \E d \in 1 .. MaxRuns : TimerFires(d)

SpecPage == InitPage /\ [][NextPage]_vars

----------------------------------------------------------------------------
(* The diagram alone: one StateTransitionDiagram, wired to its controls,   *)
(* fed and reset by its owner while the user works the controls            *)

\* the snapshots a diagram holds at most
MaxFeeds == 8

\* the k-th snapshot fed: what the playback does never reads its arrays
Snapshot(k) == [A |-> 0, B |-> 0, pi |-> 0, iteration |-> k, log_likelihood |-> 0]

\* the controls as the page's markup has them, which is not in the source:
\* all disabled or all enabled
MarkupControls == {NoControls, [NoControls EXCEPT !.btnFirst = FALSE,
                     !.btnBack = FALSE, !.btnForward = FALSE, !.btnLast = FALSE,
                     !.btnPlay = FALSE]}

\* new StateTransitionDiagram(...); wireControls(c)
InitWired ==
  /\ args = [obs |-> << >>, N |-> 0, M |-> 0,
             opts |-> [maxIter |-> 0, epsilon |-> 0, seed |-> 0]]
  /\ hmm = [h \in Inst |-> NoHMM]
  /\ gens = << >>
  /\ outs = << >>
  /\ pc = [h \in Inst |-> "idle"]
  /\ mode = [h \in Inst |-> "iter"]
  /\ iter = [h \in Inst |-> 0]
  /\ prevLL = [h \in Inst |-> NegInf]
  /\ loc = [h \in Inst |-> NoLoc]
  /\ calls = [h \in Inst |-> << >>]
  /\ stages = [h \in Inst |-> << >>]
  /\ heap = << >>
  /\ ref = [h \in Inst |-> NoRef]
  /\ diagrams = << NewDiagram >>
  /\ stdDiagram = 1
  /\ runs = 0
  /\ lse = NoCall
  /\ before = [h \in Inst |-> NoHMM]
  /\ controls \in MarkupControls

\* feedIteration(data), called by the diagram's owner
Feed(d) ==
  /\ Len(diagrams[d].history) < MaxFeeds
  /\ Observed(d, DiagFeedIteration(Handler(diagrams[d]),
                                   Snapshot(Len(diagrams[d].history) + 1)))

\* reset(), called by the diagram's owner
Reset(d) == Observed(d, DiagReset(Handler(diagrams[d])))

\* No method is called but by the listeners: the timers that are pending
\* are the one playTimer holds and the orphans, and no step of these makes
\* an orphan
NextWired ==
  \/ Feed(1)
  \/ Reset(1)
  \/ WiredEvent
  \/ Tick(1)

SpecWired == InitWired /\ [][NextWired]_vars

----------------------------------------------------------------------------
(* A replay left alone: the diagram is fed, reset and sought while it      *)
(* is paused; from play() or a click on the play button to the replay's    *)
(* end only the timers run.  A timer that is pending fires: the page has   *)
(* one thread and no handler that does not return.                         *)

Paused(d) == ~diagrams[d].isPlaying

InitPlayback == InitWired

NextPlayback ==
  \/ Paused(1) /\ Feed(1)
  \/ Paused(1) /\ Reset(1)
  \/ \E i \in (0 - 1) .. MaxFeeds : Paused(1) /\ SeekTo(1, i)
  \/ Paused(1) /\ Play(1)
  \/ Paused(1) /\ ClickPlay
  \/ Tick(1)

SpecPlayback == InitPlayback /\ [][NextPlayback]_vars /\ WF_vars(Tick(1))

----------------------------------------------------------------------------
(* The generator alone: mulberry32(seed) and calls of what it returns *)

PrngSeeds == {0 - 1, 0, 1, 42}

\* const rand = mulberry32(seed)
Mulberry32(seed) ==
  /\ Len(gens) < MaxGens
  /\ gens' = Append(gens, NewGen(ToInt32(seed)))
  /\ outs' = Append(outs, << >>)
  /\ UNCHANGED << mem, page, args, hmm, pc, mode, iter, prevLL, loc, calls, stages >>

\* one call of generator g, the closure variable being one for all
\* generators
DrawShared(g) ==
  /\ g \in 1 .. Len(gens)
  /\ gens[g].n < MaxDraws
  /\ gens' = [k \in 1 .. Len(gens) |->
               [gens[k] EXCEPT !.seed = MulberryNext(@),
                               !.n = IF k = g THEN @ + 1 ELSE @]]
  /\ outs' = [outs EXCEPT ![g] = Append(@, MulberryOut(gens[g].seed))]
  /\ UNCHANGED << mem, page, args, hmm, pc, mode, iter, prevLL, loc, calls, stages >>

\* one call of generator g
Draw(g) ==
  /\ g \in 1 .. Len(gens)
  /\ gens[g].n < MaxDraws
  /\ gens' = [gens EXCEPT ![g] = [@ EXCEPT !.seed = MulberryNext(@), !.n = @ + 1]]
  /\ outs' = [outs EXCEPT ![g] = Append(@, MulberryOut(gens[g].seed))]
  /\ UNCHANGED << mem, page, args, hmm, pc, mode, iter, prevLL, loc, calls, stages >>

InitPrng ==
  /\ Init
  /\ args = [obs |-> <<0, 0, 0>>, N |-> 1, M |-> 1,
             opts |-> [maxIter |-> 1, epsilon |-> 0, seed |-> 0]]

NextPrng ==
  \/ \E seed \in PrngSeeds : Mulberry32(seed)
  \/ \E g \in 1 .. MaxGens : Draw(g)

SpecPrng == InitPrng /\ [][NextPrng]_vars

----------------------------------------------------------------------------
(* logSumExp alone *)

LseValues ==
  {NEG_INFINITY, POS_INFINITY, NAN, Fin(0 - SCALE), Fin(0), Fin(SCALE + SCALE)}

LseArgs == UNION {[1 .. n -> LseValues] : n \in 0 .. MaxLse}

\* logSumExp(arr)
CallLogSumExp(arr) ==
  /\ lse' = [arr |-> arr, out |-> Some(LogSumExp(arr))]
  /\ UNCHANGED << args, hmm, gens, outs, pc, mode, iter, prevLL, loc, calls, stages,
                  heap, ref, diagrams, stdDiagram, runs, before, controls >>

NextLse == \E arr \in LseArgs : CallLogSumExp(arr)

SpecLse == InitPrng /\ [][NextLse]_vars

----------------------------------------------------------------------------
(* The M-step alone: _mstep(gamma, xi) called on an instance of two states, *)
(* two symbols and three observations, with occupancies that need not be    *)
(* normalised and may be zero.                                              *)

\* the rows of gamma: a state without occupancy, one with all of it, both
\* with half, and rows that are all zeros or not normalised
GammaRows ==
  { [i \in Idx(2) |-> r[i + 1]] :
      r \in { <<0, 0>>, <<SCALE, 0>>, <<0, SCALE>>,
              <<SCALE \div 2, SCALE \div 2>>, <<SCALE, SCALE>> } }

\* the slice t of xi for the row g of gamma: no transition, or the occupancy
\* of each state passed on in equal shares, or all of it into state 1; a
\* state without occupancy has no transition out of it
XiKinds == {"none", "even", "into1"}

XiSlice(kind, g) ==
  [i \in Idx(2) |-> [j \in Idx(2) |->
     IF kind = "even" THEN g[i] \div 2
     ELSE IF kind = "into1" /\ j = 1 THEN g[i]
     ELSE 0]]

\* observations in range, and observations none of which is a symbol
MStepObs == { <<0, 1, 0>>, <<2, 2, 2>> }

\* an instance of two states and two symbols with uniform parameters
UniformHMM(obs) ==
  [ O |-> obs, T |-> Len(obs), N |-> 2, M |-> 2,
    maxIter |-> DEFAULT_MAXITER, epsilon |-> DEFAULT_EPSILON,
    pi |-> [i \in Idx(2) |-> SCALE \div 2],
    A  |-> [i \in Idx(2) |-> [j \in Idx(2) |-> SCALE \div 2]],
    B  |-> [i \in Idx(2) |-> [k \in Idx(2) |-> SCALE \div 2]],
    logLikeHistory |-> << >>, iterations |-> 0, converged |-> FALSE,
    finalAlpha |-> Null, finalGamma |-> Null ]

InitMStep ==
  /\ \E obs \in MStepObs :
       /\ args = [obs |-> obs, N |-> 2, M |-> 2,
                  opts |-> [maxIter |-> 0, epsilon |-> 0, seed |-> 0]]
       /\ hmm = [h \in Inst |-> IF h = 1 THEN UniformHMM(obs) ELSE NoHMM]
  /\ \E g \in [Idx(3) -> GammaRows], k \in [Idx(2) -> XiKinds] :
       loc = [h \in Inst |->
                IF h = 1
                THEN [NoLoc EXCEPT !.e =
                        Some([gamma |-> g,
                              xi |-> [t \in Idx(2) |-> XiSlice(k[t], g[t])]])]
                ELSE NoLoc]
  /\ pc = [h \in Inst |-> IF h = 1 THEN "mstep" ELSE "none"]
  /\ gens = << >>
  /\ outs = << >>
  /\ mode = [h \in Inst |-> "iter"]
  /\ iter = [h \in Inst |-> 0]
  /\ prevLL = [h \in Inst |-> NegInf]
  /\ calls = [h \in Inst |-> << >>]
  /\ stages = [h \in Inst |-> << >>]
  /\ heap = << >>
  /\ ref = [h \in Inst |-> NoRef]
  /\ diagrams = << >>
  /\ stdDiagram = 0
  /\ runs = 0
  /\ lse = NoCall
  /\ before = [h \in Inst |-> NoHMM]
  /\ controls = NoControls

NextMStep == DoMStep(1)

SpecMStep == InitMStep /\ [][NextMStep]_vars

----------------------------------------------------------------------------
(* Properties of train() *)

IsDone(c) == c[2]
IsPlain(c) == ~c[2]

\* the number of entries of seq that are x
Count(seq, x) == Cardinality({k \in DOMAIN seq : seq[k] = x})

\* the final pass computed on instance m's live parameters
FinalPass(m) ==
  LET f == Forward(m)
      e == EStep(m, f.alpha, Backward(m, f.c))
  IN  [logAlpha |-> f.logAlpha, gamma |-> e.gamma]

\* C1: in every run of train(cb) the callback is called without done=true
\* once per completed iteration, with the indices 0, 1, ..., iterations - 1
\* in this order, and once more with done=true exactly when the run ends by
\* convergence, as its last call; a run that ends at the cap makes no
\* done=true call.
C1_CallbackSequence ==
  \A h \in Inst :
    LET plain == SelectSeq(calls[h], IsPlain)
        final == SelectSeq(calls[h], IsDone)
    IN  /\ \A k \in 1 .. Len(plain) : plain[k][1] = k - 1
        /\ Len(final) <= 1
        /\ pc[h] \in {"returned", "threw"} =>
             /\ Len(plain) = hmm[h].iterations
             /\ Len(final) = IF mode[h] = "conv" THEN 1 ELSE 0
             /\ mode[h] = "conv" => IsDone(calls[h][Len(calls[h])])

\* a run that ended by convergence after at least three iterations
C1_Witness ==
  \E h \in Inst :
    pc[h] = "returned" /\ mode[h] = "conv" /\ Len(calls[h]) >= 4

\* C2: train() ends in exactly one of two outcomes, Converged (converged is
\* true and iterations <= maxIter) or MaxIterReached (iterations = maxIter
\* and converged is false), for every observation sequence; it has no other
\* way out.
C2_TwoOutcomes ==
  \A h \in Inst :
    /\ pc[h] # "threw"
    /\ pc[h] # "none" => hmm[h].iterations <= hmm[h].maxIter
    /\ pc[h] = "returned" =>
         \/ hmm[h].converged /\ mode[h] = "conv"
         \/ ~hmm[h].converged /\ mode[h] = "cap"
                              /\ hmm[h].iterations = hmm[h].maxIter

\* a run on an empty observation sequence has started its first iteration
C2_Witness ==
  \E h \in Inst : pc[h] = "forward" /\ hmm[h].T = 0 /\ hmm[h].N >= 1

\* C3: the convergence test never succeeds on iteration index 0, so a
\* converged run has made at least 2 iterations; the run stops at the first
\* index i >= 1 with |logLik_i - logLik_(i-1)| < epsilon, and no M-step
\* follows that iteration.
C3_ConvergenceTest ==
  \A h \in Inst :
    pc[h] # "none" =>
      LET m == hmm[h]
          H == m.logLikeHistory
          n == Len(H)
          Close(k) == Abs(H[k] - H[k - 1]) < m.epsilon
      IN  /\ m.converged =>
                /\ m.iterations >= 2
                /\ n = m.iterations
                /\ Close(n)
                /\ mode[h] = "conv"
                /\ Count(stages[h], "mstep") = n
                /\ pc[h] \notin {"mstep", "replace", "callback", "test"}
          /\ \A k \in 2 .. n :
                Close(k) => k = n /\ (m.converged \/ pc[h] \in {"callback", "test"})

\* a converged run whose first tested iteration did not pass the test
C3_Witness ==
  \E h \in Inst :
    pc[h] = "returned" /\ hmm[h].converged /\ hmm[h].iterations >= 3

\* C4: on the iteration that ends the run by convergence the order is: the
\* live pi, A, B are replaced by the M-step's output, the log-likelihood is
\* appended, the ordinary callback is made for that index, converged is set,
\* finalAlpha and finalGamma are recomputed from the updated parameters and
\* stored, and only then the done=true callback is made, which is the last.
C4_ConvergenceOrder ==
  \A h \in Inst :
    /\ (mode[h] = "conv" /\ pc[h] \in {"forward", "backward", "estep", "store", "done"}) =>
         /\ hmm[h].converged
         /\ hmm[h].pi = loc[h].est.v.pi
         /\ hmm[h].A = loc[h].est.v.A
         /\ hmm[h].B = loc[h].est.v.B
         /\ Len(hmm[h].logLikeHistory) = iter[h] + 1
         /\ hmm[h].logLikeHistory[iter[h] + 1] = loc[h].logLik
         /\ calls[h] # << >>
         /\ calls[h][Len(calls[h])] = << iter[h], FALSE >>
    /\ pc[h] = "done" =>
         /\ hmm[h].finalAlpha = Some(FinalPass(hmm[h]).logAlpha)
         /\ hmm[h].finalGamma = Some(FinalPass(hmm[h]).gamma)
    /\ \A k \in 1 .. Len(calls[h]) :
         IsDone(calls[h][k]) =>
           /\ k = Len(calls[h])
           /\ calls[h][k][1] = iter[h]
           /\ pc[h] \in {"after", "returned"}
           /\ hmm[h].finalAlpha = Some(FinalPass(hmm[h]).logAlpha)

\* the done=true callback has just been made
C4_Witness ==
  \E h \in Inst :
    pc[h] = "after" /\ calls[h] # << >> /\ IsDone(calls[h][Len(calls[h])])

\* C5: after train() returns, by convergence or at the cap, finalAlpha and
\* finalGamma are non-null and are the forward pass and the E-step of the
\* final pi, A, B; each run makes exactly one pass beyond its iterations,
\* also when convergence comes on the last iteration allowed; the pass at
\* the cap raises no error.
C5_FinalPass ==
  \A h \in Inst :
    /\ pc[h] = "returned" =>
         /\ hmm[h].finalAlpha = Some(FinalPass(hmm[h]).logAlpha)
         /\ hmm[h].finalGamma = Some(FinalPass(hmm[h]).gamma)
         /\ Count(stages[h], "forward") = hmm[h].iterations + 1
         /\ Count(stages[h], "backward") = hmm[h].iterations + 1
         /\ Count(stages[h], "estep") = hmm[h].iterations + 1
         /\ Count(stages[h], "mstep") = hmm[h].iterations
    /\ pc[h] = "threw" => mode[h] = "iter"

\* a run that converged on the last iteration maxIter allows
C5_Witness ==
  \E h \in Inst :
    /\ pc[h] = "returned"
    /\ hmm[h].converged
    /\ hmm[h].iterations = hmm[h].maxIter

\* a run that ended at the cap
C5_WitnessCap ==
  \E h \in Inst :
    pc[h] = "returned" /\ ~hmm[h].converged /\ hmm[h].iterations >= 2

----------------------------------------------------------------------------
(* Properties of the parameters and of the log-likelihood *)

\* a row of n entries that sums to 1: each entry is a quotient cut to a
\* multiple of 1/SCALE, so the sum is short of SCALE by less than n units
SumsToOne(row, n) ==
  /\ SumTo(row, n) <= SCALE
  /\ SumTo(row, n) > SCALE - Max(n, 1)

AllZero(row, n) == \A i \in Idx(n) : row[i] = 0

LL_NOISE == 4

Ended == {"returned", "threw"}

\* C8: two instances made with the same observations, N, M, seed, maxIter
\* and epsilon and trained end with the same A, B, pi, logLikeHistory,
\* iterations and converged and make the same sequence of callback calls;
\* the first instance is not touched by the making and training of the
\* second.
C8_Deterministic ==
  /\ (pc[1] \in Ended /\ pc[2] \in Ended) =>
       /\ pc[1] = pc[2]
       /\ hmm[1].A = hmm[2].A
       /\ hmm[1].B = hmm[2].B
       /\ hmm[1].pi = hmm[2].pi
       /\ hmm[1].logLikeHistory = hmm[2].logLikeHistory
       /\ hmm[1].iterations = hmm[2].iterations
       /\ hmm[1].converged = hmm[2].converged
       /\ calls[1] = calls[2]
  /\ (pc[1] \in Ended /\ pc[2] # "none") =>
       /\ Len(gens) = 2
       /\ gens[1].n = CtorDraws(args.N, args.M)
       /\ gens[2].n = CtorDraws(args.N, args.M)

\* both runs have returned after several iterations from a seed of the
\* caller's
C8_Witness ==
  /\ pc[1] = "returned"
  /\ pc[2] = "returned"
  /\ hmm[2].iterations >= 3
  /\ args.opts.seed # 0

\* C9: the constructor fails, before any step of training, when N < 1,
\* M < 1, there are fewer than 3 observations or an observation is outside
\* [0, M); such a symbol never reaches the lookup of its emission
\* probability, where it would be replaced by 1e-300.
C9_ConstructionValidates ==
  \A h \in Inst :
    /\ pc[h] # "none" => IsValid(args)
    /\ stages[h] # << >> =>
         \A t \in 1 .. Len(args.obs) : args.obs[t] \in Idx(args.M)

\* a forward pass has run on observations with a symbol outside [0, M)
C9_Witness ==
  \E h \in Inst :
    /\ pc[h] = "backward"
    /\ \E t \in 1 .. hmm[h].T : hmm[h].O[t] \notin Idx(hmm[h].M)

----------------------------------------------------------------------------
(* Properties of mulberry32 *)

IsWord(w) == w[1] \in 0 .. (H16 - 1) /\ w[2] \in 0 .. (H16 - 1)

\* C10: two generators made by mulberry32 with the same seed return the
\* same value at every draw index; what a generator returns depends only on
\* its seed and on the number of its own earlier draws; and every value is
\* an unsigned 32-bit integer over 2^32, which is in [0, 1).
C10_Mulberry ==
  /\ \A g \in 1 .. Len(gens) :
       /\ Len(outs[g]) = gens[g].n
       /\ outs[g] = Draws(gens[g].seed0, gens[g].n)
       /\ gens[g].seed = Advance(gens[g].seed0, gens[g].n)
       /\ \A k \in 1 .. Len(outs[g]) :
            /\ IsWord(outs[g][k])
            /\ ToUnit(outs[g][k]) \in 0 .. (SCALE - 1)
  /\ \A g1, g2 \in 1 .. Len(gens) :
       gens[g1].seed0 = gens[g2].seed0 =>
         \A k \in 1 .. Min(Len(outs[g1]), Len(outs[g2])) :
           outs[g1][k] = outs[g2][k]

\* two generators of one seed, drawn from in turn
C10_Witness ==
  /\ Len(gens) = 2
  /\ gens[1].seed0 = gens[2].seed0
  /\ gens[1].n >= 2
  /\ gens[2].n >= 2

----------------------------------------------------------------------------
(* Properties of the constructor's options *)

\* C11: for every integer seed given in the constructor's options, 0
\* included, pi, A and B are initialised from the generator seeded with that
\* seed, 42 being used only when no seed is given; an instance made with
\* seed 0 does not get the stream of seed 42.
C11_SeedHonoured ==
  \A h \in Inst :
    pc[h] = "made" =>
      /\ gens[Len(gens)].seed0 = ToInt32(args.opts.seed)
      /\ hmm[h] = NewHMM(args.obs, args.N, args.M, args.opts, ToInt32(args.opts.seed))
      /\ args.opts.seed # DEFAULT_SEED =>
           gens[Len(gens)].seed0 # ToInt32(DEFAULT_SEED)

\* an instance with at least one state has been made with seed 0
C11_Witness ==
  \E h \in Inst : pc[h] = "made" /\ args.opts.seed = 0 /\ args.N >= 1

----------------------------------------------------------------------------
(* Properties of logSumExp *)

\* C12: logSumExp returns -Infinity, never NaN, for the empty sequence and
\* for every sequence all of whose elements are -Infinity, and returns x for
\* the sequence [x] with x finite.
C12_LogSumExp ==
  ~lse.out.null =>
    /\ (\A k \in DOMAIN lse.arr : lse.arr[k] = NEG_INFINITY) =>
         lse.out.v = NEG_INFINITY
    /\ (Len(lse.arr) = 1 /\ IsFinite(lse.arr[1])) => lse.out.v = lse.arr[1]

\* logSumExp has returned from a call with several elements, all -Infinity
C12_Witness ==
  /\ ~lse.out.null
  /\ Len(lse.arr) >= 2
  /\ \A k \in DOMAIN lse.arr : lse.arr[k] = NEG_INFINITY

----------------------------------------------------------------------------
(* The model of one state *)

\* instance h is made from a valid sequence of 3 observations and N = 1
SingleState(h) ==
  pc[h] # "none" /\ IsValid(args) /\ args.N = 1 /\ Len(args.obs) = 3

\* [1.0] and [[1.0]]
OneRow == [i \in Idx(1) |-> SCALE]
OneMatrix == [i \in Idx(1) |-> OneRow]

\* C13: for any observation sequence of length 3 with N = 1, after training
\* A = [[1.0]] and pi = [1.0], and training converges on iteration 1: the
\* run ends with converged = true at the first iteration on which the
\* convergence test is applied (maxIter allowing three iterations or more).
C13_ConvergesOnIterationOne ==
  \A h \in Inst :
    (SingleState(h) /\ pc[h] = "returned" /\ hmm[h].maxIter >= 3) =>
      /\ hmm[h].pi = OneRow
      /\ hmm[h].A = OneMatrix
      /\ hmm[h].converged
      /\ hmm[h].iterations = 2

\* C13 as the code has it: for any observation sequence of length 3 with
\* N = 1, pi = [1.0] and A = [[1.0]] from construction on; the
\* log-likelihood does not change from iteration index 1 on; a run that
\* maxIter allows three iterations ends converged, at iteration index 1 if
\* the log-likelihoods of indices 0 and 1 differ by less than epsilon and at
\* iteration index 2 otherwise.
C13_SingleState ==
  \A h \in Inst :
    SingleState(h) =>
      LET m == hmm[h]
          H == m.logLikeHistory
      IN  /\ m.pi = OneRow
          /\ m.A = OneMatrix
          /\ \A k \in 2 .. (Len(H) - 1) : H[k + 1] = H[k]
          /\ m.iterations <= 3
          /\ (pc[h] = "returned" /\ m.maxIter >= 3) =>
               /\ m.converged
               /\ m.iterations = IF Abs(H[2] - H[1]) < m.epsilon THEN 2 ELSE 3

\* a run on one state and more than one symbol has ended converged at
\* iteration index 2
C13_Witness ==
  \E h \in Inst :
    /\ SingleState(h)
    /\ pc[h] = "returned"
    /\ args.M >= 2
    /\ hmm[h].converged
    /\ hmm[h].iterations = 3

----------------------------------------------------------------------------
(* Properties of the snapshots runBaumWelch feeds to the diagram *)

\* the history of the diagram runBaumWelch feeds
History == diagrams[stdDiagram].history

\* train() has returned in a run of runBaumWelch
Trained == runs > 0 /\ pc[1] \in {"returned", "shown"}

\* C14: in a run of runBaumWelch the diagram's history gets exactly one
\* snapshot per M-step: after training its length is hmm.iterations and its
\* k-th snapshot (k from 0) has iteration = k + 1, no iteration twice, in
\* the Converged and in the MaxIterReached outcome.
C14_OneSnapshotPerMStep ==
  Trained =>
    /\ Len(History) = hmm[1].iterations
    /\ \A k \in 1 .. Len(History) : History[k].iteration = k

\* a converged run of runBaumWelch is over
C14_Witness ==
  /\ runs > 0
  /\ pc[1] = "shown"
  /\ hmm[1].converged
  /\ hmm[1].iterations >= 2

\* C15: the history of a diagram is append-only during a run: feedIteration
\* appends one entry at the end and nothing else, and seekTo, play, pause,
\* stepForward, stepBack, goFirst, goLast and the timers leave the history as
\* it is; a history is emptied only by reset(), which runBaumWelch calls
\* through initDiagram before the first snapshot of the new run is fed.
C15_AppendOnly ==
  [][ /\ \A d \in 1 .. Len(diagrams) :
           \/ diagrams'[d].history = diagrams[d].history
           \/ /\ d = stdDiagram
              /\ pc[1] \in {"callback", "done"}
              /\ Len(diagrams'[d].history) = Len(diagrams[d].history) + 1
              /\ SubSeq(diagrams'[d].history, 1, Len(diagrams[d].history))
                   = diagrams[d].history
           \/ /\ d = stdDiagram
              /\ runs' = runs + 1
              /\ pc'[1] = "none"
              /\ diagrams'[d].history = << >>
      /\ Len(diagrams') >= Len(diagrams)
      /\ \A d \in (Len(diagrams) + 1) .. Len(diagrams') :
           /\ runs' = runs + 1
           /\ diagrams'[d].history = << >> ]_vars

\* the second run of runBaumWelch is over: the first diagram was reset, the
\* second holds the run's snapshots and has been stepped back from the last
C15_Witness ==
  /\ Len(diagrams) = 2
  /\ pc[1] = "shown"
  /\ diagrams[1].history = << >>
  /\ Len(diagrams[2].history) >= 2
  /\ diagrams[2].currentIdx = 0
  /\ ~diagrams[2].followLatest

----------------------------------------------------------------------------
(* Properties of the iterations of train() *)

\* the instance as the constructor leaves it
Fresh ==
  NewHMM(args.obs, args.N, args.M, args.opts,
         ToInt32(OrDefault(args.opts.seed, DEFAULT_SEED)))

\* C16: on a new instance logLikeHistory has one entry per iteration: at
\* every ordinary call of the callback for index i its length is i + 1 and
\* iterations is i + 1, and after train() has returned its length is
\* iterations; entry i is the log-likelihood of the parameters held before
\* the M-step of iteration i.
C16_HistoryPerIteration ==
  \A h \in Inst :
    pc[h] # "none" =>
      LET m == hmm[h]
          H == m.logLikeHistory
      IN  /\ Len(H) = m.iterations
          /\ pc[h] \in {"callback", "test"} =>
               /\ Len(H) = iter[h] + 1
               /\ m.iterations = iter[h] + 1
               /\ H[Len(H)] = loc[h].logLik
          /\ pc[h] = "test" => calls[h][Len(calls[h])] = << Len(H) - 1, FALSE >>
          /\ (pc[h] = "replace" /\ mode[h] = "iter") =>
               /\ loc[h].logLik = Forward(m).logLik
               /\ Len(H) = iter[h]
          /\ Len(H) >= 1 => H[1] = Forward(Fresh).logLik

\* the callback has just been called for iteration index 2 of a run on
\* valid arguments
C16_Witness ==
  \E h \in Inst :
    /\ pc[h] = "test"
    /\ IsValid(args)
    /\ iter[h] = 2
    /\ Len(hmm[h].logLikeHistory) = 3

StageCycle == << "forward", "backward", "estep", "mstep" >>

\* the E-step of the live parameters of m, made from their forward and
\* backward pass
PassOf(m) == EStep(m, Forward(m).alpha, Backward(m, Forward(m).c))

\* C17: in every iteration of train(), and in the final pass, the stages run
\* in the order forward, backward, E-step, M-step, each on the result of the
\* one before it in the same iteration: the backward pass gets the scale
\* factors of this iteration's forward pass, forward, backward and E-step
\* read the same pi, A, B, and the live pi, A, B are replaced only after the
\* M-step has returned, then the log-likelihood is appended, then the
\* callback is called.
C17_StageOrder ==
  \A h \in Inst :
    pc[h] \notin {"none", "made", "threw"} =>
      LET m == hmm[h]
          n == Len(stages[h])
      IN  /\ \A k \in 1 .. n : stages[h][k] = StageCycle[((k - 1) % 4) + 1]
          /\ pc[h] = "forward" => n % 4 = 0
          /\ pc[h] = "backward" =>
               /\ stages[h][n] = "forward"
               /\ loc[h].f.v = Forward(m)
          /\ pc[h] = "estep" =>
               /\ stages[h][n] = "backward"
               /\ loc[h].f.v = Forward(m)
               /\ loc[h].beta.v = Backward(m, Forward(m).c)
          /\ pc[h] \in {"mstep", "store"} =>
               /\ stages[h][n] = "estep"
               /\ loc[h].e.v = PassOf(m)
          /\ pc[h] = "replace" =>
               /\ stages[h][n] = "mstep"
               /\ loc[h].est.v = MStep(m, PassOf(m).gamma, PassOf(m).xi)
               /\ Len(m.logLikeHistory) = iter[h]
          /\ pc[h] = "callback" =>
               /\ stages[h][n] = "mstep"
               /\ m.pi = loc[h].est.v.pi /\ m.A = loc[h].est.v.A /\ m.B = loc[h].est.v.B
               /\ Len(m.logLikeHistory) = iter[h] + 1
               /\ Len(SelectSeq(calls[h], IsPlain)) = iter[h]

\* the E-step of the third iteration has run on valid arguments
C17_Witness ==
  \E h \in Inst :
    /\ pc[h] = "mstep"
    /\ IsValid(args)
    /\ iter[h] = 2
    /\ args.N >= 2

----------------------------------------------------------------------------
(* Properties of the arrays of a run *)

\* the arrays of the snapshot d of a diagram's history
SnapshotRef(d) == [pi |-> d.pi, A |-> d.A, B |-> d.B]

\* C18: the snapshots handed to the diagram are copies: the A, B and pi
\* arrays of a snapshot share no array with the live parameters of the
\* instance, train() never writes into an existing parameter array (each
\* M-step builds new arrays), so that the snapshot of iteration k is
\* unchanged by every later iteration; train() also never changes O, T, N
\* or M.
C18_DefensiveCopies ==
  /\ [](ref[1] # NoRef =>
          /\ Load(heap, ref[1]) = [pi |-> hmm[1].pi, A |-> hmm[1].A, B |-> hmm[1].B]
          /\ runs > 0 =>
               \A k \in 1 .. Len(History) :
                 Objects(heap, SnapshotRef(History[k])) \cap Objects(heap, ref[1]) = {}
          /\ pc[1] = "replace" =>
               Objects(heap, loc[1].estRef) \cap Objects(heap, ref[1]) = {})
  /\ [][ runs' = runs =>
           /\ \A id \in DOMAIN heap : id \in DOMAIN heap' /\ heap'[id] = heap[id]
           /\ runs > 0 =>
                \A k \in 1 .. Len(History) :
                  /\ History'[k] = History[k]
                  /\ Load(heap', SnapshotRef(History[k]))
                       = Load(heap, SnapshotRef(History[k]))
           /\ pc[1] # "none" =>
                /\ hmm'[1].O = hmm[1].O /\ hmm'[1].T = hmm[1].T
                /\ hmm'[1].N = hmm[1].N /\ hmm'[1].M = hmm[1].M ]_vars

\* a run of three iterations or more is over: the first snapshot still holds
\* the parameters of the first M-step, which the instance no longer has
C18_Witness ==
  /\ runs > 0
  /\ pc[1] = "shown"
  /\ Len(History) >= 3
  /\ History[1].iteration = 1
  /\ Load(heap, SnapshotRef(History[1])) # Load(heap, ref[1])

----------------------------------------------------------------------------
(* Properties of the passes *)

\* every entry of pi, A and B is above zero
Positive(m) ==
  /\ \A i \in Idx(m.N) : m.pi[i] > 0
  /\ \A i \in Idx(m.N) : \A j \in Idx(m.N) : m.A[i][j] > 0
  /\ \A i \in Idx(m.N) : \A k \in Idx(m.M) : m.B[i][k] > 0

\* row t of f before its scaling, f being the forward pass of m
RawOf(m, f, t) == FwdRaw(m, t, IF t = 0 THEN << >> ELSE f.alpha[t - 1])

\* C19: for pi, A, B with entries above zero and observations in range,
\* every row alpha[t] returned by _forward sums to 1 and c[t] is the
\* reciprocal of the sum of the row before its scaling; when that sum is not
\* above zero, c[t] is 1 and the row is left as computed; logLik is minus the
\* sum over t of log c[t].  A row of N entries is scaled with N + 1
\* roundings, each below one unit of the representation.
C19_ForwardScaled ==
  \A h \in Inst :
    pc[h] = "backward" =>
      LET m == hmm[h]
          f == loc[h].f.v
      IN  /\ (IsValid(args) /\ Positive(m)) =>
                \A t \in Idx(m.T) :
                  /\ SumTo(RawOf(m, f, t), m.N) > 0
                  /\ f.c[t] = FDiv(SCALE, SumTo(RawOf(m, f, t), m.N))
                  /\ SumTo(f.alpha[t], m.N) <= SCALE
                  /\ SumTo(f.alpha[t], m.N) >= SCALE - (m.N + 1)
          /\ \A t \in Idx(m.T) :
                SumTo(RawOf(m, f, t), m.N) <= 0 =>
                  /\ f.c[t] = SCALE
                  /\ f.alpha[t] = RawOf(m, f, t)
          /\ \A t \in Idx(m.T) : f.c[t] > 0
          /\ f.logLik = 0 - SumTo([t \in Idx(m.T) |-> Ln(f.c[t])], m.T)

\* the forward pass of the second iteration has run on two states and
\* three observations, and has scaled a row by a factor other than 1
C19_Witness ==
  \E h \in Inst :
    /\ pc[h] = "backward"
    /\ IsValid(args)
    /\ Positive(hmm[h])
    /\ iter[h] = 1
    /\ hmm[h].N = 2
    /\ hmm[h].T = 3
    /\ loc[h].f.v.c[2] > SCALE

\* alpha with its row t set to zeros
ZeroRow(alpha, t, n) == [alpha EXCEPT ![t] = [i \in Idx(n) |-> 0]]

\* C20: every distribution the E-step returns is normalised: for alpha and
\* beta made by the forward and backward pass on parameters with entries
\* above zero, each row gamma[t] (t in [0, T)) sums to 1 and each N x N
\* slice xi[t] (t in [0, T - 1)) sums to 1; a row or slice whose sum before
\* the division is 0 is returned as it is, all zeros, and nothing is divided
\* by zero (also when a row of alpha is put to zero).  Each quotient is
\* rounded down by less than one unit.
C20_EStepNormalised ==
  \A h \in Inst :
    pc[h] \in {"mstep", "store"} =>
      LET m == hmm[h]
          e == loc[h].e.v
          raw == EStepRaw(m, loc[h].f.v.alpha, loc[h].beta.v)
      IN  /\ (IsValid(args) /\ Positive(m)) =>
                /\ \A t \in Idx(m.T) :
                     /\ SumTo(raw.gamma[t], m.N) > 0
                     /\ SumTo(e.gamma[t], m.N) <= SCALE
                     /\ SumTo(e.gamma[t], m.N) > SCALE - m.N
                /\ \A t \in Idx(m.T - 1) :
                     /\ SumMat(raw.xi[t], m.N) > 0
                     /\ SumMat(e.xi[t], m.N) <= SCALE
                     /\ SumMat(e.xi[t], m.N) > SCALE - (m.N * m.N)
          /\ \A t \in Idx(m.T) :
                SumTo(raw.gamma[t], m.N) = 0 =>
                  /\ e.gamma[t] = raw.gamma[t]
                  /\ \A i \in Idx(m.N) : e.gamma[t][i] = 0
          /\ \A t \in Idx(m.T - 1) :
                SumMat(raw.xi[t], m.N) = 0 =>
                  /\ e.xi[t] = raw.xi[t]
                  /\ \A i \in Idx(m.N) : \A j \in Idx(m.N) : e.xi[t][i][j] = 0
          /\ IsValid(args) =>
                \A t \in Idx(m.T) :
                  LET z == EStep(m, ZeroRow(loc[h].f.v.alpha, t, m.N), loc[h].beta.v)
                  IN  /\ \A i \in Idx(m.N) : z.gamma[t][i] = 0
                      /\ t < m.T - 1 =>
                           \A i \in Idx(m.N) : \A j \in Idx(m.N) : z.xi[t][i][j] = 0

\* the E-step of the second iteration has run on two states and three
\* observations, and its first products did not sum to 1
C20_Witness ==
  \E h \in Inst :
    /\ pc[h] = "mstep"
    /\ IsValid(args)
    /\ Positive(hmm[h])
    /\ iter[h] = 1
    /\ hmm[h].N = 2
    /\ hmm[h].T = 3
    /\ SumMat(EStepRaw(hmm[h], loc[h].f.v.alpha, loc[h].beta.v).xi[0], 2) # SCALE

----------------------------------------------------------------------------
(* Properties of the M-step *)

\* a / b in the representation, for b > 0
Ratio(a, b) == (a * SCALE) \div b

\* the row of n entries divided by its sum (by 1 when the sum is 0)
Renormalised(row, n) ==
  [i \in Idx(n) |-> Ratio(row[i], IF SumTo(row, n) = 0 THEN SCALE ELSE SumTo(row, n))]

\* the occupancy of state i in gamma over the times 0 .. last
Occupancy(gamma, i, last) == SumTo([t \in Idx(last + 1) |-> gamma[t][i]], last + 1)

\* the occupancy of the transition i -> j in xi over the times 0 .. last
Transitions(xi, i, j, last) == SumTo([t \in Idx(last + 1) |-> xi[t][i][j]], last + 1)

\* the occupancy of state i in gamma at the times the symbol k was observed
Emissions(m, gamma, i, k) ==
  SumTo([t \in Idx(m.T) |-> IF m.O[t + 1] = k THEN gamma[t][i] ELSE 0], m.T)

\* every state has occupancy above zero, over t < T - 1 and so over all t
Occupied(m, gamma) == \A i \in Idx(m.N) : Occupancy(gamma, i, m.T - 2) > 0

\* C21: for gamma and xi in which every state has occupancy other than zero,
\* _mstep returns pi = gamma[0] renormalised, A[i][j] = (sum over t < T-1 of
\* xi[t][i][j]) / (sum over t < T-1 of gamma[t][i]) renormalised per row and
\* B[i][k] = (sum over the t with O[t] = k of gamma[t][i]) / (sum over all t
\* of gamma[t][i]) renormalised per row: the sums of A stop at T-2, those of
\* B run to T-1.
C21_MStepRatios ==
  \A h \in Inst :
    (pc[h] = "replace" /\ Occupied(hmm[h], loc[h].e.v.gamma)) =>
      LET m == hmm[h]
          g == loc[h].e.v.gamma
          x == loc[h].e.v.xi
          r == loc[h].est.v
      IN  /\ r.pi = Renormalised(g[0], m.N)
          /\ \A i \in Idx(m.N) :
                r.A[i] = Renormalised([j \in Idx(m.N) |->
                            Ratio(Transitions(x, i, j, m.T - 2),
                                  Occupancy(g, i, m.T - 2))], m.N)
          /\ \A i \in Idx(m.N) :
                r.B[i] = Renormalised([k \in Idx(m.M) |->
                            Ratio(Emissions(m, g, i, k),
                                  Occupancy(g, i, m.T - 1))], m.M)

\* an M-step has run on two states or more, all of them occupied, whose
\* occupancy over t < T - 1 is below the one over all t
C21_Witness ==
  \E h \in Inst :
    /\ pc[h] = "replace"
    /\ IsValid(args)
    /\ hmm[h].N >= 2
    /\ Occupied(hmm[h], loc[h].e.v.gamma)
    /\ \A i \in Idx(hmm[h].N) :
         Occupancy(loc[h].e.v.gamma, i, hmm[h].T - 2)
           < Occupancy(loc[h].e.v.gamma, i, hmm[h].T - 1)

\* the largest of f[0] .. f[n-1], 0 at least
RECURSIVE MaxTo(_, _)
MaxTo(f, n) == IF n <= 0 THEN 0 ELSE Max(MaxTo(f, n - 1), f[n - 1])

\* the rounding of a row of xi, in units of 1/SCALE times SCALE: each of its
\* N entries is a product of four factors cut three times to a multiple of
\* 1/SCALE, the last factor being an entry of beta
XiNoise(m, beta) ==
  2 * m.N * (SCALE + MaxTo([t \in Idx(m.T) |-> MaxTo(beta[t], m.N)], m.T))

\* C22: the ratios of the M-step are normalised before normalise is applied
\* to them: for alpha, beta, gamma, xi made by the forward pass, the backward
\* pass and the E-step on the same parameters, all above zero, and
\* observations in range, the sum over j of xi[t][i][j] is gamma[t][i] for
\* every t < T - 1 and state i, so that every row of newA sums to 1, and
\* every row of newB sums to 1.  The equalities are those of exact
\* arithmetic: here they hold up to the rounding of the products and
\* quotients.
C22_RatiosNormalised ==
  \A h \in Inst :
    (pc[h] = "replace" /\ IsValid(args) /\ Positive(hmm[h])) =>
      LET m == hmm[h]
          g == loc[h].e.v.gamma
          x == loc[h].e.v.xi
          raw == MStepRaw(m, g, x)
          noise == XiNoise(m, loc[h].beta.v)
      IN  /\ \A t \in Idx(m.T - 1) : \A i \in Idx(m.N) :
                Abs(SumTo(x[t][i], m.N) - g[t][i]) * SCALE <= noise
          /\ \A i \in Idx(m.N) :
                /\ Occupancy(g, i, m.T - 2) > 0
                /\ Abs(SumTo(raw.A[i], m.N) - SCALE) * Occupancy(g, i, m.T - 2)
                     <= ((m.T - 1) * noise) + (m.N * Occupancy(g, i, m.T - 2))
          /\ \A i \in Idx(m.N) :
                /\ SumTo(raw.B[i], m.M) <= SCALE
                /\ SumTo(raw.B[i], m.M) > SCALE - m.M

\* the E-step and the M-step of the second iteration have run on three
\* states and three symbols with all parameters above zero
C22_Witness ==
  \E h \in Inst :
    /\ pc[h] = "replace"
    /\ IsValid(args)
    /\ Positive(hmm[h])
    /\ iter[h] = 1
    /\ hmm[h].N = 3
    /\ hmm[h].M = 3

----------------------------------------------------------------------------
(* Properties of the constructor *)

\* the row made of the draws off + 1 .. off + len of the sequence d of
\* 32-bit draws: each draw over 2^32, plus 0.2, over the sum of these
DrawnRow(d, off, len) ==
  LET v == [i \in Idx(len) |-> ToUnit(d[off + i + 1]) + (SCALE \div 5)]
  IN  [i \in Idx(len) |-> Ratio(v[i], SumTo(v, len))]

\* C23: for every N >= 1, M >= 1 and seed, every entry of the first pi, A
\* and B is above zero (each is (draw + 0.2) over the sum of its row, the
\* draw in [0, 1)), and the constructor makes exactly N + N*N + N*M draws of
\* the generator, in the order pi, the rows of A, the rows of B.
C23_InitialParameters ==
  \A h \in Inst :
    (pc[h] = "made" /\ args.N >= 1 /\ args.M >= 1) =>
      LET m == hmm[h]
          N == args.N
          M == args.M
          g == gens[Len(gens)]
          d == Draws(g.seed0, N + (N * N) + (N * M))
      IN  /\ g.n = N + (N * N) + (N * M)
          /\ g.seed0 = ToInt32(IF args.opts.seed = 0 THEN DEFAULT_SEED ELSE args.opts.seed)
          /\ \A k \in 1 .. Len(d) : ToUnit(d[k]) \in 0 .. (SCALE - 1)
          /\ m.pi = DrawnRow(d, 0, N)
          /\ \A i \in Idx(N) : m.A[i] = DrawnRow(d, N + (i * N), N)
          /\ \A i \in Idx(N) : m.B[i] = DrawnRow(d, N + (N * N) + (i * M), M)
          /\ Positive(m)

\* an instance of three states and two symbols has been made
C23_Witness ==
  \E h \in Inst :
    /\ pc[h] = "made"
    /\ args.N = 3
    /\ args.M = 2
    /\ args.opts.seed = 63
    /\ gens[Len(gens)].n = 18

\* the rows of the estimates r of an M-step on N states and M symbols
RowsOf(r, N, M) ==
  { << r.pi, N >> } \cup { << r.A[i], N >> : i \in Idx(N) }
                    \cup { << r.B[i], M >> : i \in Idx(N) }

----------------------------------------------------------------------------
(* Properties of a repeated call of train() *)

\* the last call of the callback was an ordinary one: the run of train()
\* that made it ended at the cap of its iterations
EndedAtCap(h) == calls[h] # << >> /\ IsPlain(calls[h][Len(calls[h])])

\* C25: train() does not reset the state of a run: when it is called a
\* second time on an instance, logLikeHistory keeps the entries of the first
\* call and is appended to (its length becomes the sum of the iterations of
\* both calls, while iterations holds the count of the second call only),
\* and converged is never put back to false, so that a second call that
\* ends at the cap after a first call that converged returns with converged
\* true and with the finalAlpha and finalGamma of the first call.
C25_TrainKeepsRunState ==
  \A h \in Inst :
    before[h] # NoHMM =>
      LET b == before[h]
          m == hmm[h]
          n == Len(b.logLikeHistory)
      IN  /\ n = b.iterations
          /\ Len(m.logLikeHistory) >= n
          /\ SubSeq(m.logLikeHistory, 1, n) = b.logLikeHistory
          /\ b.converged => m.converged
          /\ pc[h] \in {"callback", "test"} =>
               /\ m.iterations = iter[h] + 1
               /\ Len(m.logLikeHistory) = n + iter[h] + 1
          /\ pc[h] = "returned" =>
               /\ Len(m.logLikeHistory) = b.iterations + m.iterations
               /\ (b.converged /\ EndedAtCap(h)) =>
                    /\ m.converged
                    /\ m.iterations = m.maxIter
                    /\ m.finalAlpha = b.finalAlpha
                    /\ m.finalGamma = b.finalGamma

\* train() has returned for the second time, at the cap, on an instance on
\* which it had converged: the final matrices are those of the first call
\* and not those of the parameters the instance now has
C25_Witness ==
  /\ pc[1] = "returned"
  /\ before[1] # NoHMM
  /\ IsValid(args)
  /\ before[1].converged
  /\ EndedAtCap(1)
  /\ hmm[1].iterations = 2
  /\ Len(hmm[1].logLikeHistory) = 4
  /\ hmm[1].finalAlpha = before[1].finalAlpha
  /\ hmm[1].finalAlpha.v # Forward(hmm[1]).logAlpha

----------------------------------------------------------------------------
(* Properties of the diagram's playback *)

\* -1 <= currentIdx <= history.length - 1
InRange(d) == 0 - 1 <= d.currentIdx /\ d.currentIdx <= Len(d.history) - 1

\* C26: whatever the sequence of feedIteration, seekTo, play, pause,
\* stepForward, stepBack, goFirst, goLast, reset, clicks on the wired play
\* button, scrub events and timer ticks, every diagram has
\* -1 <= currentIdx <= history.length - 1.  The code breaks it: the play
\* button's listener sets currentIdx = 0 before play() finds the history
\* empty.
C26_IndexInRange == \A d \in 1 .. Len(diagrams) : InRange(diagrams[d])

\* a second run has replaced the first run's diagram, whose listeners the
\* play button still has, and the button has been clicked: the first
\* diagram is at index 0 of an empty history
C26_Witness ==
  /\ Len(diagrams) = 2
  /\ pc[1] = "shown"
  /\ diagrams[1].history = << >>
  /\ diagrams[1].currentIdx = 0
  /\ Len(diagrams[2].history) >= 2

\* the diagram alone
Diagram == diagrams[1]

\* the index of the last snapshot
LastIdx(d) == Len(d.history) - 1

\* the replay of d has ended: it stands at the last snapshot, paused, with
\* no timer
Stopped(d) ==
  /\ ~d.isPlaying
  /\ d.playTimer = "null"
  /\ d.currentIdx = LastIdx(d)

\* C27: playback always stops.  After play() on a history that is not empty,
\* with the timers firing and no other event, every tick before the last
\* snapshot adds exactly one to currentIdx, no tick lowers it, the replay
\* reaches history.length - 1 and is then over with isPlaying = false and
\* playTimer = null; play() on an empty history changes nothing.
C27_PlaybackStops ==
  /\ [][ LET d == Diagram
             v == diagrams'[1]
         IN  /\ Tick(1) /\ d.isPlaying
               => /\ v.history = d.history
                  /\ IF d.currentIdx < LastIdx(d)
                     THEN /\ v.currentIdx = d.currentIdx + 1
                          /\ v.isPlaying
                          /\ v.playTimer = "pending"
                     ELSE Stopped(v)
             /\ Play(1) /\ d.history = << >>
               => /\ v.history = << >>
                  /\ v.currentIdx = d.currentIdx
                  /\ v.isPlaying = d.isPlaying
                  /\ v.playTimer = d.playTimer
                  /\ v.followLatest = d.followLatest
                  /\ v.isScrubbing = d.isScrubbing
                  /\ controls' = controls
             /\ Play(1) /\ d.history # << >>
               => v.currentIdx >= d.currentIdx ]_vars
  /\ (Diagram.isPlaying ~> Stopped(Diagram))

\* a replay of three snapshots from the first is on its way: it has been
\* started at index 0 and a tick has taken it from 1 to 2
C27_Witness ==
  /\ Len(Diagram.history) = 3
  /\ Diagram.isPlaying
  /\ Diagram.playTimer = "pending"
  /\ Diagram.currentIdx = 2
  /\ Diagram.drawn = << 2 >>

\* C28: feedIteration appends the snapshot; while isScrubbing is true or
\* followLatest is false it leaves currentIdx, followLatest and isPlaying as
\* they are and renders nothing, and only with isScrubbing false and
\* followLatest true does it set currentIdx to history.length - 1.
C28_FeedWhileAway ==
  [][ Feed(1) =>
        LET d == Diagram
            v == diagrams'[1]
        IN  /\ v.history = Append(d.history, Snapshot(Len(d.history) + 1))
            /\ v.followLatest = d.followLatest
            /\ v.isPlaying = d.isPlaying
            /\ v.isScrubbing = d.isScrubbing
            /\ v.playTimer = d.playTimer
            /\ IF ~d.isScrubbing /\ d.followLatest
               THEN v.currentIdx = LastIdx(v) /\ v.drawn = << LastIdx(v) >>
               ELSE v.currentIdx = d.currentIdx /\ v.drawn = << >> ]_vars

\* the diagram has been fed while the user held the timeline: it has
\* snapshots and shows none
C28_Witness ==
  /\ Diagram.isScrubbing
  /\ Len(Diagram.history) >= 2
  /\ Diagram.currentIdx = 0 - 1
  /\ Diagram.shown

\* the play button can be clicked on a diagram that is paused at the last
\* of at least two snapshots
AtEnd(d) == ~d.isPlaying /\ Len(d.history) >= 2 /\ d.currentIdx = LastIdx(d)

\* C29: a click on the wired play button while the diagram is paused at the
\* last of at least two snapshots sets currentIdx to 0 without rendering
\* snapshot 0: the listener renders index 1 and nothing else, every tick of
\* the replay renders the next index and nothing else, and the replay ends
\* at history.length - 1.
C29_ReplaySkipsFirst ==
  /\ [][ LET d == Diagram
             v == diagrams'[1]
         IN  /\ ClickPlay /\ AtEnd(d)
               => /\ v.currentIdx = 1
                  /\ v.drawn = << 1 >>
                  /\ v.isPlaying
                  /\ v.playTimer = "pending"
             /\ Tick(1) /\ d.isPlaying
               => v.drawn = IF d.currentIdx < LastIdx(d)
                            THEN << d.currentIdx + 1 >> ELSE << >> ]_vars
  /\ (Diagram.isPlaying /\ Diagram.currentIdx = 1 /\ Diagram.drawn = << 1 >>
        ~> Stopped(Diagram))

\* the click has been made on a diagram paused at the last of three
\* snapshots that follows the latest: index 1 has been rendered, and the
\* diagram was not brought there by a seek or a step
C29_Witness ==
  /\ Len(Diagram.history) = 3
  /\ Diagram.isPlaying
  /\ Diagram.currentIdx = 1
  /\ Diagram.drawn = << 1 >>
  /\ Diagram.playTimer = "pending"

\* the timers of d that are pending
Pending(d) == d.orphans + (IF d.playTimer = "pending" THEN 1 ELSE 0)

\* C30: under the events of the wired controls, feedIteration, reset and the
\* timers at most one timer is pending, and none while isPlaying is false:
\* no timer's firing moves currentIdx once the diagram has been paused.
C30_OneTimer ==
  /\ Pending(Diagram) <= 1
  /\ ~Diagram.isPlaying => Pending(Diagram) = 0

\* a replay of three snapshots has been paused by a click on the play
\* button before its end: the timer it had set is gone
C30_Witness ==
  /\ ~Diagram.isPlaying
  /\ Diagram.playTimer = "null"
  /\ Diagram.orphans = 0
  /\ Len(Diagram.history) = 3
  /\ Diagram.currentIdx = 1
  /\ Diagram.followLatest
  /\ ~Diagram.isScrubbing
  /\ Diagram.drawn = << >>
  /\ Diagram.shown

============================================================================
